---- MODULE Spec2Model ----
(***************************************************************************)
(* LearnQL: paged storage engine, persistent B+Tree, batch cursor and      *)
(* typed table with secondary indexes, system catalog and database.        *)
(*                                                                         *)
(* Indexes are 0-based in the source and 1-based in TLA+ sequences: an     *)
(* index variable i keeps its C++ value and the sequence is read at i + 1. *)
(* std::optional<V> is a sequence: << >> is nullopt, << v >> holds v.      *)
(***************************************************************************)
EXTENDS Integers, Sequences, FiniteSets, TLC

VARIABLES
    storage,    \* StorageEngine: counters, page_cache_, dirty_pages_, the file
    index,      \* a stand-alone PersistentBTreeIndex<int, int>
    iter,       \* a BatchIterator over index, its batch size and its output
    table,      \* a Table: index_, secondary_indexes_, count_
    catalog,    \* the catalog row of the table: record_count
    db          \* a Database: whether it is open, catalog_, named_tables_

vars == << storage, index, iter, table, catalog, db >>

----------------------------------------------------------------------------
(* Bounds of the model *)

MaxKey == 4          \* keys are 1 .. MaxKey
MaxValue == 2        \* values of the stand-alone tree are 1 .. MaxValue
MaxPages == 6        \* no call may push next_page_id_ beyond MaxPages + 1
MaxBatch == 2        \* batch sizes are 1 .. MaxBatch

Keys == 1 .. MaxKey
Values == 1 .. MaxValue

----------------------------------------------------------------------------
(* Program constants of PersistentBTreeIndex *)

ORDER == 4
MAX_KEYS == ORDER - 1
CACHE_SIZE == 32

----------------------------------------------------------------------------
(* Sequence helpers: std::vector insert, erase, assign from a position *)

InsertAt(s, i, x) == SubSeq(s, 1, i) \o << x >> \o SubSeq(s, i + 1, Len(s))

EraseAt(s, i) == SubSeq(s, 1, i) \o SubSeq(s, i + 2, Len(s))

From(s, i) == SubSeq(s, i + 1, Len(s))

Upto(s, n) == SubSeq(s, 1, n)

\* the result of a call that the caller reads more than once: the call is
\* made once, as the only element of a set
The(S) == CHOOSE x \in S : TRUE

----------------------------------------------------------------------------
(* Page and StorageEngine *)

PAGE_SIZE == 4096

\* sizeof(PageHeader)
PageHeaderSize == 64

DATA_SIZE == PAGE_SIZE - PageHeaderSize

PageOf(page_id, type) ==
    [page_id |-> page_id, page_type |-> type, record_count |-> 0,
     free_space_offset |-> PageHeaderSize, next_page_id |-> 0, data |-> << >>]

available_space(page) == DATA_SIZE - page.free_space_offset + PageHeaderSize

can_fit(page, size) == available_space(page) >= size

\* Page::clear: the header becomes PageHeader{} and the payload is zeroed
PageClear(page) == PageOf(0, "FREE")

\* the StorageEngine constructor's default cache_size
cache_size_ == 64

\* page 0: next_page_id_, free_list_head_ and the three catalog roots
MetadataOf(st) ==
    [PageOf(0, "METADATA") EXCEPT
        !.data = << st.next_page_id_, st.free_list_head_, st.sys_tables_root_,
                    st.sys_fields_root_, st.sys_indexes_root_ >>]

\* st.pages is page_cache_ and st.file the pages of the database file.  The
\* model keeps fewer than cache_size_ pages, so evict_page never runs; a page
\* cached by a read is a copy of the file's page and is not recorded.
read_page(st, page_id) ==
    IF page_id \in DOMAIN st.pages THEN st.pages[page_id] ELSE st.file[page_id]

flush_all(st) ==
    [st EXCEPT
        !.file = [p \in DOMAIN st.file \cup st.dirty_pages_ |->
                     IF p \in st.dirty_pages_ THEN st.pages[p] ELSE st.file[p]],
        !.dirty_pages_ = {}]

write_page(st, page_id, page) ==
        The({ (IF Cardinality(st1.dirty_pages_) > cache_size_ \div 2
               THEN flush_all(st1)
               ELSE st1) :
                st1 \in { [st EXCEPT
                             !.pages = [p \in DOMAIN st.pages \cup {page_id} |->
                                           IF p = page_id THEN page
                                           ELSE st.pages[p]],
                             !.dirty_pages_ = @ \cup {page_id}] } })

save_metadata(st) == write_page(st, 0, MetadataOf(st))

\* the metadata page goes straight to the new file
create_new_database ==
    LET st == [next_page_id_ |-> 1, free_list_head_ |-> 0,
               sys_tables_root_ |-> 0, sys_fields_root_ |-> 0,
               sys_indexes_root_ |-> 0,
               pages |-> [p \in {} |-> 0], dirty_pages_ |-> {},
               file |-> [p \in {} |-> 0]]
    IN  [st EXCEPT !.file = [p \in {0} |-> MetadataOf(st)]]

\* the StorageEngine constructor on an existing file: load_metadata
load_metadata(file) ==
    [next_page_id_ |-> file[0].data[1], free_list_head_ |-> file[0].data[2],
     sys_tables_root_ |-> file[0].data[3], sys_fields_root_ |-> file[0].data[4],
     sys_indexes_root_ |-> file[0].data[5],
     pages |-> [p \in {} |-> 0], dirty_pages_ |-> {}, file |-> file]

set_sys_tables_root(st, root_page_id) ==
    save_metadata([st EXCEPT !.sys_tables_root_ = root_page_id])

set_sys_fields_root(st, root_page_id) ==
    save_metadata([st EXCEPT !.sys_fields_root_ = root_page_id])

set_sys_indexes_root(st, root_page_id) ==
    save_metadata([st EXCEPT !.sys_indexes_root_ = root_page_id])

\* returns the storage after the call and the page id handed out
allocate_page(st, type) ==
    IF st.free_list_head_ # 0
    THEN LET page_id == st.free_list_head_
             page == read_page(st, page_id)
             st1 == [st EXCEPT !.free_list_head_ = page.next_page_id]
         IN  [st |-> The({ save_metadata(st2) :
                             st2 \in { write_page(st1, page_id,
                                                  PageOf(page_id, type)) } }),
              page_id |-> page_id]
    ELSE LET page_id == st.next_page_id_
             st1 == [st EXCEPT !.next_page_id_ = @ + 1]
         IN  [st |-> The({ save_metadata(st2) :
                             st2 \in { write_page(st1, page_id,
                                                  PageOf(page_id, type)) } }),
              page_id |-> page_id]

deallocate_page(st, page_id) ==
    LET page == read_page(st, page_id)
        marked == [page EXCEPT !.page_type = "FREE",
                               !.next_page_id = st.free_list_head_]
        cleared == PageClear(marked)
        st1 == [st EXCEPT !.free_list_head_ = page_id]
    IN  The({ save_metadata(st2) :
                st2 \in { write_page(st1, page_id, cleared) } })

----------------------------------------------------------------------------
(* PersistentBTreeIndex: nodes *)

Node(pid) ==
    [page_id |-> pid, keys |-> << >>, values |-> << >>,
     children_ids |-> << >>, is_leaf |-> TRUE,
     next_page_id |-> 0, prev_page_id |-> 0]

\* std::lower_bound over the sorted keys of a node: the first position
\* whose key is not less than key
find_insert_pos(node, key) ==
    CHOOSE i \in 0 .. Len(node.keys) :
        /\ \A j \in 1 .. i : node.keys[j] < key
        /\ (i < Len(node.keys) => ~(node.keys[i + 1] < key))

\* is_full as it would be if a node were full only beyond max_keys
is_full_beyond_max(node) == Len(node.keys) > MAX_KEYS

is_full(node) == Len(node.keys) >= MAX_KEYS

\* A context c is the storage, the node cache and the dirty set a call works
\* on.  The model keeps fewer than CACHE_SIZE nodes, so evict_node never runs
\* and every node saved by this handle is served by the cache.
load_node(c, page_id) == c.nc[page_id]

save_node(c, node) ==
    [c EXCEPT !.nc =
                  [p \in DOMAIN c.nc \cup {node.page_id} |->
                      IF p = node.page_id THEN node ELSE c.nc[p]],
              !.dn = @ \cup {node.page_id}]

allocate_node(c, is_leaf) ==
        The({ ([c |-> save_node([c EXCEPT !.st = a.st],
                                [Node(a.page_id) EXCEPT !.is_leaf = is_leaf]),
                page_id |-> a.page_id]) : a \in { allocate_page(c.st, "INDEX") } })

----------------------------------------------------------------------------
(* PersistentBTreeIndex: search, split, insert, remove *)

\* position in a leaf:  i = 0; while (i < size && key > keys[i]) ++i
LeafPos(node, key) ==
    CHOOSE i \in 0 .. Len(node.keys) :
        /\ \A j \in 1 .. i : key > node.keys[j]
        /\ (i < Len(node.keys) => ~(key > node.keys[i + 1]))

\* the child taken as it would be with  key > keys[i]  in the loop
RoutePos_greater(node, key) ==
    CHOOSE i \in 0 .. Len(node.keys) :
        /\ \A j \in 1 .. i : key > node.keys[j]
        /\ (i < Len(node.keys) => ~(key > node.keys[i + 1]))

\* child taken in an internal node:  i = 0; while (i < size && key >= keys[i]) ++i
RoutePos(node, key) ==
    CHOOSE i \in 0 .. Len(node.keys) :
        /\ \A j \in 1 .. i : key >= node.keys[j]
        /\ (i < Len(node.keys) => ~(key >= node.keys[i + 1]))

RECURSIVE search(_, _, _)
search(c, node_id, key) ==
    IF node_id = 0 THEN << >>
    ELSE LET node == load_node(c, node_id) IN
         IF node.is_leaf
         THEN LET i == LeafPos(node, key) IN
              IF i < Len(node.keys) /\ key = node.keys[i + 1]
              THEN << node.values[i + 1] >>
              ELSE << >>
         ELSE LET i == RoutePos(node, key) IN
              search(c, node.children_ids[i + 1], key)

\* split_child as it would be if the old successor of the split leaf kept its
\* prev_page_id
split_child_without_back_link(c, parent, idx) ==
    LET mid == MAX_KEYS \div 2
    IN  The({ (The({ (IF full_child.is_leaf
                      THEN (LET new_node_id == a.page_id
                                new_node ==
                                    [(load_node(a.c, a.page_id)) EXCEPT
                                       !.keys = From(full_child.keys, mid),
                                       !.values = From(full_child.values, mid),
                                       !.next_page_id = full_child.next_page_id,
                                       !.prev_page_id = full_child.page_id]
                                c1 == a.c
                                parent1 ==
                                    [parent EXCEPT
                                       !.keys = InsertAt(@, idx, new_node.keys[1]),
                                       !.children_ids = InsertAt(@, idx + 1, new_node_id)]
                                child1 ==
                                    [full_child EXCEPT
                                       !.next_page_id = new_node_id,
                                       !.keys = Upto(@, mid),
                                       !.values = Upto(@, mid)]
                            IN  [c |-> save_node(save_node(save_node(c1, child1), new_node),
                                                 parent1),
                                 parent |-> parent1])
                      ELSE (LET new_node_id == a.page_id
                                new_node ==
                                    [(load_node(a.c, a.page_id)) EXCEPT
                                       !.keys = From(full_child.keys, mid + 1),
                                       !.children_ids = From(full_child.children_ids, mid + 1)]
                                parent1 ==
                                    [parent EXCEPT
                                       !.keys = InsertAt(@, idx, full_child.keys[mid + 1]),
                                       !.children_ids = InsertAt(@, idx + 1, new_node_id)]
                                child1 ==
                                    [full_child EXCEPT
                                       !.keys = Upto(@, mid),
                                       !.children_ids = Upto(@, mid + 1)]
                            IN  [c |-> save_node(save_node(save_node(a.c, child1), new_node),
                                                 parent1),
                                 parent |-> parent1])) :
                       a \in { allocate_node(c, full_child.is_leaf) } })) :
                full_child \in { load_node(c, parent.children_ids[idx + 1]) } })

\* split_child as it would be if the new leaf took the split leaf, not its
\* successor, as its next_page_id
split_child_linked_back(c, parent, idx) ==
    LET mid == MAX_KEYS \div 2
    IN  The({ (The({ (IF full_child.is_leaf
                      THEN (LET new_node_id == a.page_id
                                new_node ==
                                    [(load_node(a.c, a.page_id)) EXCEPT
                                       !.keys = From(full_child.keys, mid),
                                       !.values = From(full_child.values, mid),
                                       !.next_page_id = full_child.page_id,
                                       !.prev_page_id = full_child.page_id]
                                c1 == IF new_node.next_page_id # 0
                                      THEN save_node(a.c,
                                             [load_node(a.c, new_node.next_page_id) EXCEPT
                                                 !.prev_page_id = new_node_id])
                                      ELSE a.c
                                parent1 ==
                                    [parent EXCEPT
                                       !.keys = InsertAt(@, idx, new_node.keys[1]),
                                       !.children_ids = InsertAt(@, idx + 1, new_node_id)]
                                child1 ==
                                    [full_child EXCEPT
                                       !.next_page_id = new_node_id,
                                       !.keys = Upto(@, mid),
                                       !.values = Upto(@, mid)]
                            IN  [c |-> save_node(save_node(save_node(c1, child1), new_node),
                                                 parent1),
                                 parent |-> parent1])
                      ELSE (LET new_node_id == a.page_id
                                new_node ==
                                    [(load_node(a.c, a.page_id)) EXCEPT
                                       !.keys = From(full_child.keys, mid + 1),
                                       !.children_ids = From(full_child.children_ids, mid + 1)]
                                parent1 ==
                                    [parent EXCEPT
                                       !.keys = InsertAt(@, idx, full_child.keys[mid + 1]),
                                       !.children_ids = InsertAt(@, idx + 1, new_node_id)]
                                child1 ==
                                    [full_child EXCEPT
                                       !.keys = Upto(@, mid),
                                       !.children_ids = Upto(@, mid + 1)]
                            IN  [c |-> save_node(save_node(save_node(a.c, child1), new_node),
                                                 parent1),
                                 parent |-> parent1])) :
                       a \in { allocate_node(c, full_child.is_leaf) } })) :
                full_child \in { load_node(c, parent.children_ids[idx + 1]) } })

\* returns the context after the split and the parent as modified in place
split_child(c, parent, idx) ==
    LET mid == MAX_KEYS \div 2
    IN  The({ (The({ (IF full_child.is_leaf
                      THEN (LET new_node_id == a.page_id
                                new_node ==
                                    [(load_node(a.c, a.page_id)) EXCEPT
                                       !.keys = From(full_child.keys, mid),
                                       !.values = From(full_child.values, mid),
                                       !.next_page_id = full_child.next_page_id,
                                       !.prev_page_id = full_child.page_id]
                                c1 == IF new_node.next_page_id # 0
                                      THEN save_node(a.c,
                                             [load_node(a.c, new_node.next_page_id) EXCEPT
                                                 !.prev_page_id = new_node_id])
                                      ELSE a.c
                                parent1 ==
                                    [parent EXCEPT
                                       !.keys = InsertAt(@, idx, new_node.keys[1]),
                                       !.children_ids = InsertAt(@, idx + 1, new_node_id)]
                                child1 ==
                                    [full_child EXCEPT
                                       !.next_page_id = new_node_id,
                                       !.keys = Upto(@, mid),
                                       !.values = Upto(@, mid)]
                            IN  [c |-> save_node(save_node(save_node(c1, child1), new_node),
                                                 parent1),
                                 parent |-> parent1])
                      ELSE (LET new_node_id == a.page_id
                                new_node ==
                                    [(load_node(a.c, a.page_id)) EXCEPT
                                       !.keys = From(full_child.keys, mid + 1),
                                       !.children_ids = From(full_child.children_ids, mid + 1)]
                                parent1 ==
                                    [parent EXCEPT
                                       !.keys = InsertAt(@, idx, full_child.keys[mid + 1]),
                                       !.children_ids = InsertAt(@, idx + 1, new_node_id)]
                                child1 ==
                                    [full_child EXCEPT
                                       !.keys = Upto(@, mid),
                                       !.children_ids = Upto(@, mid + 1)]
                            IN  [c |-> save_node(save_node(save_node(a.c, child1), new_node),
                                                 parent1),
                                 parent |-> parent1])) :
                       a \in { allocate_node(c, full_child.is_leaf) } })) :
                full_child \in { load_node(c, parent.children_ids[idx + 1]) } })

\* returns the context after the call and whether the pair was inserted
RECURSIVE insert_non_full(_, _, _, _)
insert_non_full(c, node, key, value) ==
    LET i == find_insert_pos(node, key)
    IN  IF node.is_leaf
        THEN IF i < Len(node.keys) /\ node.keys[i + 1] = key
             THEN [c |-> c, inserted |-> FALSE]
             ELSE [c |-> save_node(c, [node EXCEPT
                                         !.keys = InsertAt(@, i, key),
                                         !.values = InsertAt(@, i, value)]),
                   inserted |-> TRUE]
        ELSE The({ (IF is_full(child)
                    THEN The({ (LET i2 == IF key >= sp.parent.keys[i + 1] THEN i + 1 ELSE i
                                IN  insert_non_full(sp.c,
                                                    load_node(sp.c, sp.parent.children_ids[i2 + 1]),
                                                    key, value)) : sp \in { split_child(c, node, i) } })
                    ELSE insert_non_full(c, child, key, value)) :
                     child \in { load_node(c, node.children_ids[i + 1]) } })

\* a tree handle t is root_page_id_, size_ and node_cache_
Ctx(st, t) == [st |-> st, nc |-> t.node_cache_, dn |-> t.dirty_nodes_]

BTreeOpen(st) ==
        The({ ([st |-> a.c.st,
                t |-> [root_page_id_ |-> a.page_id, size_ |-> 0,
                       node_cache_ |-> a.c.nc, dirty_nodes_ |-> a.c.dn]]) :
                a \in { allocate_node([st |-> st, nc |-> [p \in {} |-> 0],
                                       dn |-> {}],
                                      TRUE) } })

\* returns the storage and the handle after the call, and the bool returned
insert(st, t, key, value) ==
    LET c0 == Ctx(st, t)
        root == load_node(c0, t.root_page_id_)
    IN  The({ (The({ ([st |-> r.c.st,
                       t |-> [root_page_id_ |-> s.root,
                              size_ |-> IF r.inserted THEN t.size_ + 1 ELSE t.size_,
                              node_cache_ |-> r.c.nc, dirty_nodes_ |-> r.c.dn],
                       ret |-> r.inserted]) :
                       r \in { insert_non_full(s.c, load_node(s.c, s.root),
                                               key, value) } })) :
                s \in { IF is_full(root)
                        THEN The({ (The({ [c |-> save_node(sp.c, sp.parent), root |-> a.page_id] :
                                            sp \in { split_child(
                                                         a.c,
                                                         [load_node(a.c, a.page_id) EXCEPT
                                                             !.children_ids = Append(@, t.root_page_id_)],
                                                         0) } })) : a \in { allocate_node(c0, FALSE) } })
                        ELSE [c |-> c0, root |-> t.root_page_id_] } })

find(t, key) == search([nc |-> t.node_cache_], t.root_page_id_, key)

contains(t, key) == find(t, key) # << >>

\* returns the context, the node as modified in place, and the bool returned
RECURSIVE remove_from_node(_, _, _)
remove_from_node(c, node, key) ==
        IF node.is_leaf
        THEN LET i == LeafPos(node, key) IN
             IF i < Len(node.keys) /\ key = node.keys[i + 1]
             THEN LET node1 == [node EXCEPT !.keys = EraseAt(@, i),
                                            !.values = EraseAt(@, i)]
                  IN  [c |-> save_node(c, node1), node |-> node1,
                       removed |-> TRUE]
             ELSE [c |-> c, node |-> node, removed |-> FALSE]
        ELSE LET i == RoutePos(node, key) IN
             IF i < Len(node.children_ids)
             THEN The({ ([c |-> save_node(r.c, node), node |-> node,
                          removed |-> r.removed]) :
                          r \in { remove_from_node(
                                     c, load_node(c, node.children_ids[i + 1]),
                                     key) } })
             ELSE [c |-> c, node |-> node, removed |-> FALSE]

deallocate_node(c, page_id) ==
    [st |-> deallocate_page(c.st, page_id),
     nc |-> [p \in DOMAIN c.nc \ {page_id} |-> c.nc[p]],
     dn |-> c.dn \ {page_id}]

remove(st, t, key) ==
    LET c0 == Ctx(st, t)
    IN  The({ ((The({ ([st |-> c1.st,
                        t |-> [root_page_id_ |-> IF ((/\ r.node.keys = << >> /\ ~r.node.is_leaf /\ r.node.children_ids # << >>)) THEN r.node.children_ids[1]
                                                 ELSE t.root_page_id_,
                               size_ |-> IF r.removed THEN t.size_ - 1 ELSE t.size_,
                               node_cache_ |-> c1.nc, dirty_nodes_ |-> c1.dn],
                        ret |-> r.removed]) :
                        c1 \in { IF (/\ r.node.keys = << >> /\ ~r.node.is_leaf /\ r.node.children_ids # << >>)
                                 THEN deallocate_node(r.c, t.root_page_id_)
                                 ELSE save_node(r.c, r.node) } }))) :
                r \in { remove_from_node(c0, load_node(c0, t.root_page_id_),
                                         key) } })

----------------------------------------------------------------------------
(* PersistentBTreeIndex: leaf-chain queries *)

RECURSIVE find_leftmost_leaf(_, _)
find_leftmost_leaf(c, node_id) ==
    IF node_id = 0 THEN 0
    ELSE LET node == load_node(c, node_id) IN
         IF node.is_leaf THEN node_id
         ELSE find_leftmost_leaf(c, node.children_ids[1])

RECURSIVE find_leaf_for_key(_, _, _)
find_leaf_for_key(c, node_id, key) ==
    IF node_id = 0 THEN 0
    ELSE LET node == load_node(c, node_id) IN
         IF node.is_leaf THEN node_id
         ELSE find_leaf_for_key(c, node.children_ids[RoutePos(node, key) + 1], key)

Pairs(node) == [i \in 1 .. Len(node.keys) |-> << node.keys[i], node.values[i] >>]

\* the while loop of traverse, from leaf_id on
RECURSIVE TraverseFrom(_, _)
TraverseFrom(c, leaf_id) ==
    IF leaf_id = 0 THEN << >>
    ELSE LET leaf == load_node(c, leaf_id) IN
         Pairs(leaf) \o TraverseFrom(c, leaf.next_page_id)

traverse(c, node_id) ==
    IF node_id = 0 THEN << >>
    ELSE TraverseFrom(c, find_leftmost_leaf(c, node_id))

get_all(t) == traverse([nc |-> t.node_cache_], t.root_page_id_)

\* the loops of range_query_helper: leaf leaf_id, key index i, results so far
RECURSIVE RangeFrom(_, _, _, _, _, _)
RangeFrom(c, leaf_id, i, min_key, max_key, results) ==
    IF leaf_id = 0 THEN results
    ELSE LET leaf == load_node(c, leaf_id) IN
         IF i >= Len(leaf.keys)
         THEN RangeFrom(c, leaf.next_page_id, 0, min_key, max_key, results)
         ELSE IF leaf.keys[i + 1] < min_key
              THEN RangeFrom(c, leaf_id, i + 1, min_key, max_key, results)
              ELSE IF leaf.keys[i + 1] > max_key
                   THEN results
                   ELSE RangeFrom(c, leaf_id, i + 1, min_key, max_key,
                                  Append(results, leaf.values[i + 1]))

range_query_helper(c, node_id, min_key, max_key) ==
    IF node_id = 0 THEN << >>
    ELSE RangeFrom(c, find_leaf_for_key(c, node_id, min_key), 0,
                   min_key, max_key, << >>)

range_query(t, min_key, max_key) ==
    range_query_helper([nc |-> t.node_cache_], t.root_page_id_, min_key, max_key)

\* the while loop of count_entries, from leaf_id on
RECURSIVE CountFrom(_, _)
CountFrom(c, leaf_id) ==
    IF leaf_id = 0 THEN 0
    ELSE LET leaf == load_node(c, leaf_id) IN
         Len(leaf.keys) + CountFrom(c, leaf.next_page_id)

count_entries(c, node_id) ==
    IF node_id = 0 THEN 0
    ELSE CountFrom(c, find_leftmost_leaf(c, node_id))

----------------------------------------------------------------------------
(* PersistentBTreeIndex: nodes on pages, flush, and opening a stored tree *)

\* Node::serialize: the fields in the order they are written
SerializeNode(node) ==
    << node.page_id, node.is_leaf, node.next_page_id, node.prev_page_id,
       node.keys, node.values, node.children_ids >>

\* Node::deserialize; a page whose payload is all zero reads as an internal
\* node with page_id 0 and no keys, values or children
DeserializeNode(data) ==
    IF data = << >>
    THEN [Node(0) EXCEPT !.is_leaf = FALSE]
    ELSE [page_id |-> data[1], is_leaf |-> data[2], next_page_id |-> data[3],
          prev_page_id |-> data[4], keys |-> data[5], values |-> data[6],
          children_ids |-> data[7]]

\* the page write_node_to_page builds for a node
NodePage(node) ==
    [PageOf(node.page_id, "INDEX") EXCEPT !.data = SerializeNode(node)]

write_node_to_page(st, node) == write_page(st, node.page_id, NodePage(node))

\* for (page_id : dirty_nodes_) if cached, write_node_to_page.  flush_all
\* follows the loop in flush, so a flush_all that write_page starts inside the
\* loop changes nothing in the outcome: the pages are put in the cache and
\* marked dirty in one step.
FlushNodes(st, nc, ids) ==
    LET written == ids \cap DOMAIN nc
    IN  [st EXCEPT
            !.pages = [p \in DOMAIN st.pages \cup written |->
                          IF p \in written THEN NodePage(nc[p]) ELSE st.pages[p]],
            !.dirty_pages_ = @ \cup written]

\* returns the storage and the handle after the call
flush(st, t) ==
        The({ The({ [st |-> st2, t |-> [t EXCEPT !.dirty_nodes_ = {}]] : st2 \in { flush_all(st1) } }) :
                st1 \in { FlushNodes(st, t.node_cache_, t.dirty_nodes_) } })

\* the pages a handle opened at root_page_id can come to read: those reached
\* from the root through children_ids and next_page_id
RECURSIVE ReachableFrom(_, _, _)
ReachableFrom(st, todo, seen) ==
        IF todo = {} THEN seen
        ELSE The({ (ReachableFrom(st,
                                  (todo \cup (({ (DeserializeNode(read_page(st, page_id).data)).children_ids[i] : i \in DOMAIN (DeserializeNode(read_page(st, page_id).data)).children_ids }
                                                  \cup {(DeserializeNode(read_page(st, page_id).data)).next_page_id}) \ {0}))
                                      \ (seen \cup {page_id}),
                                  seen \cup {page_id})) :
                     page_id \in { CHOOSE p \in todo : \A q \in todo : p <= q } })

\* the constructor with a root page: size_ = count_entries(root_page_id_).
\* count_entries loads the leftmost path and the leaf chain; the other nodes
\* are loaded on first use, from pages that only this handle writes, so the
\* cache is filled here with every node the handle can reach.
BTreeLoad(st, root_page_id) ==
        The({ (The({ ([st |-> st,
                       t |-> [root_page_id_ |-> root_page_id,
                              size_ |-> count_entries([nc |-> nc], root_page_id),
                              node_cache_ |-> nc, dirty_nodes_ |-> {}]]) :
                       nc \in { [p \in ids |->
                                   DeserializeNode(read_page(st, p).data)] } })) : ids \in { ReachableFrom(st, {root_page_id}, {}) } })

\* PersistentBTreeIndex(storage, root_page_id)
PersistentBTreeIndex(st, root_page_id) ==
    IF root_page_id = 0 THEN BTreeOpen(st) ELSE BTreeLoad(st, root_page_id)

----------------------------------------------------------------------------
(* BatchIterator: a cursor it is current_leaf_id_, current_key_index_,     *)
(* exhausted_ and root_page_id_; load_node_fn_ reads the tree t            *)

BatchIterator(t) ==
    LET leaf == find_leftmost_leaf([nc |-> t.node_cache_], t.root_page_id_)
    IN  [current_leaf_id_ |-> leaf,
         current_key_index_ |-> 0,
         exhausted_ |-> (t.root_page_id_ = 0) \/ (leaf = 0),
         root_page_id_ |-> t.root_page_id_]

create_batch_iterator(t) == BatchIterator(t)

has_more(it) == ~it.exhausted_ /\ it.current_leaf_id_ # 0

\* the outer while loop of next_batch; returns the cursor and the batch
RECURSIVE NextBatchLoop(_, _, _, _)
NextBatchLoop(t, it, BatchSize, batch) ==
    IF ~(has_more(it) /\ Len(batch) < BatchSize)
    THEN [it |-> it, batch |-> batch]
    ELSE LET leaf == load_node([nc |-> t.node_cache_], it.current_leaf_id_)
             room == BatchSize - Len(batch)
             left == Len(leaf.keys) - it.current_key_index_
             n == IF left < 0 THEN 0 ELSE IF left < room THEN left ELSE room
             taken == SubSeq(Pairs(leaf), it.current_key_index_ + 1,
                             it.current_key_index_ + n)
             idx == it.current_key_index_ + n
             it1 == IF idx >= Len(leaf.keys)
                    THEN [it EXCEPT
                            !.current_leaf_id_ = leaf.next_page_id,
                            !.current_key_index_ = 0,
                            !.exhausted_ = (leaf.next_page_id = 0) \/ @]
                    ELSE [it EXCEPT !.current_key_index_ = idx]
         IN  NextBatchLoop(t, it1, BatchSize, batch \o taken)

next_batch(t, it, BatchSize) == NextBatchLoop(t, it, BatchSize, << >>)

\* reset as it would be if it only set current_key_index_ and exhausted_
reset_keeping_leaf(t, it) ==
    [it EXCEPT !.current_key_index_ = 0, !.exhausted_ = (it.root_page_id_ = 0)]

reset(t, it) ==
    LET leaf == find_leftmost_leaf([nc |-> t.node_cache_], it.root_page_id_)
    IN  IF it.root_page_id_ = 0
        THEN [it EXCEPT !.current_key_index_ = 0, !.exhausted_ = TRUE]
        ELSE [it EXCEPT !.current_key_index_ = 0,
                        !.current_leaf_id_ = leaf,
                        !.exhausted_ = (leaf = 0)]

----------------------------------------------------------------------------
(* Records: a Student-like type with primary key id and a field name.       *)
(* The codec writes the fields in order and reads them back in order; a     *)
(* zeroed payload reads back as the record of zeros.                        *)

\* T::get_primary_key for Student, IndexMetadata, FieldMetadata, TableMetadata
get_primary_key(record) ==
    IF "id" \in DOMAIN record THEN record.id
    ELSE IF "index_id" \in DOMAIN record THEN record.index_id
    ELSE IF "field_id" \in DOMAIN record THEN record.field_id
    ELSE record.table_name

\* T::serialize: the fields in the order they are written
Serialize(record) ==
    IF "id" \in DOMAIN record THEN << record.id, record.name >>
    ELSE IF "index_id" \in DOMAIN record
    THEN << record.index_id, record.table_name, record.field_name,
            record.field_type, record.is_unique, record.index_root_page,
            record.created_timestamp, record.is_active >>
    ELSE IF "field_id" \in DOMAIN record
    THEN << record.field_id, record.table_name, record.field_name,
            record.field_type, record.field_order, record.is_primary_key >>
    ELSE << record.table_name, record.type_name, record.index_root_page,
            record.record_count, record.created_timestamp,
            record.is_system_table >>

\* data.size() of the buffer BinaryWriter filled.  A Student is its id, 4
\* bytes, the length of its name, 4 bytes, and its name: the names 1 to 9 of
\* the model stand for the strings "1" to "9", of one character each, and any
\* other name n for a string of n characters.  A row of a catalog table has
\* 6 to 8 fields, each an integer of at most 8 bytes or a name of fewer than
\* 60 characters behind its 4-byte length: no more than 64 bytes a field.
SizeOf(data) ==
    IF Len(data) = 2
    THEN 4 + 4 + (IF data[2] \in 1 .. 9 THEN 1 ELSE data[2])
    ELSE 64 * Len(data)

Deserialize(data) ==
    IF data = << >> THEN [id |-> 0, name |-> 0]
    ELSE [id |-> data[1], name |-> data[2]]

RecordIdOf(page_id, slot) == [page_id |-> page_id, slot |-> slot]

load_record(st, rid) == Deserialize(read_page(st, rid.page_id).data)

\* T::deserialize for the rows of the catalog tables
DeserializeAs(T, data) ==
    IF T = "TableMetadata"
    THEN [table_name |-> data[1], type_name |-> data[2],
          index_root_page |-> data[3], record_count |-> data[4],
          created_timestamp |-> data[5], is_system_table |-> data[6]]
    ELSE IF T = "FieldMetadata"
    THEN [field_id |-> data[1], table_name |-> data[2], field_name |-> data[3],
          field_type |-> data[4], field_order |-> data[5],
          is_primary_key |-> data[6]]
    ELSE [index_id |-> data[1], table_name |-> data[2], field_name |-> data[3],
          field_type |-> data[4], is_unique |-> data[5],
          index_root_page |-> data[6], created_timestamp |-> data[7],
          is_active |-> data[8]]

\* Table<T>::load_record for a catalog table
load_record_as(T, st, rid) == DeserializeAs(T, read_page(st, rid.page_id).data)

----------------------------------------------------------------------------
(* PersistentSecondaryIndex (unique): a wrapper w is field_name_,           *)
(* is_unique_ and the tree of unique_index_; getter_ reads field_name_      *)

PersistentSecondaryIndex_insert(st, w, record, rid) ==
        The({ [st |-> r.st, w |-> [w EXCEPT !.tree = r.t], ret |-> r.ret] :
                r \in { insert(st, w.tree, record[w.field_name_], rid) } })

PersistentSecondaryIndex_find(w, value) == find(w.tree, value)

PersistentSecondaryIndex_remove(st, w, record) ==
        The({ [st |-> r.st, w |-> [w EXCEPT !.tree = r.t], ret |-> r.ret] :
                r \in { remove(st, w.tree, record[w.field_name_]) } })

PersistentSecondaryIndex_update(st, w, old_record, new_record, rid) ==
    LET old_value == old_record[w.field_name_]
        new_value == new_record[w.field_name_]
    IN  IF old_value = new_value
        THEN [st |-> st, w |-> w, ret |-> TRUE]
        ELSE The({ (IF ~rm.ret
                    THEN [st |-> rm.st, w |-> [w EXCEPT !.tree = rm.t], ret |-> FALSE]
                    ELSE The({ [st |-> ins.st, w |-> [w EXCEPT !.tree = ins.t], ret |-> ins.ret] :
                                 ins \in { insert(rm.st, rm.t, new_value, rid) } })) :
                     rm \in { remove(st, w.tree, old_value) } })

----------------------------------------------------------------------------
(* PersistentMultiValueSecondaryIndex: the tree is keyed by CompositeKey     *)
(* (field_value, page_id), ordered by field_value and then by page_id.  The  *)
(* pair is written as one integer that keeps this order; page ids stay       *)
(* below PageStride, so PageStride - 1 stands for numeric_limits::max().     *)

MaxPageId == 15
PageStride == MaxPageId + 1

CompositeKey(field_value, page_id) == field_value * PageStride + page_id

PersistentMultiValueSecondaryIndex_insert(st, w, record, rid) ==
        The({ [st |-> r.st, w |-> [w EXCEPT !.tree = r.t], ret |-> r.ret] :
                r \in { insert(st, w.tree,
                    CompositeKey(record[w.field_name_], rid.page_id), rid) } })

PersistentMultiValueSecondaryIndex_find(w, value) ==
    range_query(w.tree, CompositeKey(value, 0), CompositeKey(value, MaxPageId))

PersistentMultiValueSecondaryIndex_remove(st, w, record, rid) ==
        The({ [st |-> r.st, w |-> [w EXCEPT !.tree = r.t], ret |-> r.ret] :
                r \in { remove(st, w.tree,
                    CompositeKey(record[w.field_name_], rid.page_id)) } })

PersistentMultiValueSecondaryIndex_update(st, w, old_record, new_record, rid) ==
    LET old_value == old_record[w.field_name_]
        new_value == new_record[w.field_name_]
    IN  IF old_value = new_value
        THEN [st |-> st, w |-> w, ret |-> TRUE]
        ELSE The({ (IF ~rm.ret
                    THEN [st |-> rm.st, w |-> [w EXCEPT !.tree = rm.t], ret |-> FALSE]
                    ELSE The({ [st |-> ins.st, w |-> [w EXCEPT !.tree = ins.t], ret |-> ins.ret] :
                                 ins \in { insert(rm.st, rm.t,
                                     CompositeKey(new_value, rid.page_id), rid) } })) :
                     rm \in { remove(st, w.tree, CompositeKey(old_value, rid.page_id)) } })

----------------------------------------------------------------------------
\* SecondaryIndexWrapper: the bool of the index call is dropped
insert_record(st, w, record, rid) ==
    LET Dropped(r) == [st |-> r.st, w |-> r.w]
    IN  IF w.is_unique_
        THEN The({ Dropped(r) :
                     r \in { PersistentSecondaryIndex_insert(st, w, record, rid) } })
        ELSE The({ Dropped(r) :
                     r \in { PersistentMultiValueSecondaryIndex_insert(st, w, record, rid) } })

remove_record(st, w, record, rid) ==
    LET Dropped(r) == [st |-> r.st, w |-> r.w]
    IN  IF w.is_unique_
        THEN The({ Dropped(r) :
                     r \in { PersistentSecondaryIndex_remove(st, w, record) } })
        ELSE The({ Dropped(r) :
                     r \in { PersistentMultiValueSecondaryIndex_remove(st, w, record, rid) } })

update_record(st, w, old_rec, new_rec, rid) ==
    LET Dropped(r) == [st |-> r.st, w |-> r.w]
    IN  IF w.is_unique_
        THEN The({ Dropped(r) :
                     r \in { PersistentSecondaryIndex_update(st, w, old_rec, new_rec, rid) } })
        ELSE The({ Dropped(r) :
                     r \in { PersistentMultiValueSecondaryIndex_update(st, w, old_rec,
                         new_rec, rid) } })

find_multi(w, value) ==
    IF ~w.is_unique_ THEN PersistentMultiValueSecondaryIndex_find(w, value)
    ELSE << >>

find_unique(w, value) ==
    IF w.is_unique_ THEN PersistentSecondaryIndex_find(w, value) ELSE << >>

----------------------------------------------------------------------------
(* Table: a handle tb is index_, secondary_indexes_ and count_; cat is the  *)
(* catalog row of the table and the index rows registered for it            *)

BatchSize == 10

\* a table without catalog pointer (catalog_ == nullptr) is handed NoCatalog
NoCatalog == [record_count |-> 0, indexes |-> << >>]

\* for (auto& sec_idx : secondary_indexes_) sec_idx->insert_record(...)
RECURSIVE InsertEach(_, _, _, _, _)
InsertEach(st, ws, i, record, rid) ==
        IF i > Len(ws) THEN [st |-> st, ws |-> ws]
        ELSE The({ InsertEach(r.st, [ws EXCEPT ![i] = r.w], i + 1, record, rid) :
                     r \in { insert_record(st, ws[i], record, rid) } })

RECURSIVE RemoveEach(_, _, _, _, _)
RemoveEach(st, ws, i, record, rid) ==
        IF i > Len(ws) THEN [st |-> st, ws |-> ws]
        ELSE The({ RemoveEach(r.st, [ws EXCEPT ![i] = r.w], i + 1, record, rid) :
                     r \in { remove_record(st, ws[i], record, rid) } })

RECURSIVE UpdateEach(_, _, _, _, _, _)
UpdateEach(st, ws, i, old_rec, new_rec, rid) ==
        IF i > Len(ws) THEN [st |-> st, ws |-> ws]
        ELSE The({ (UpdateEach(r.st, [ws EXCEPT ![i] = r.w], i + 1,
                               old_rec, new_rec, rid)) :
                     r \in { update_record(st, ws[i], old_rec, new_rec, rid) } })

update_record_count(cat, count) == [cat EXCEPT !.record_count = count]

sync_catalog_count(cat, tb) == update_record_count(cat, tb.count_)

TableOpen(st) ==
        The({ ([st |-> o.st,
                tb |-> [index_ |-> o.t, secondary_indexes_ |-> << >>,
                        count_ |-> o.t.size_]]) :
                o \in { BTreeOpen(st) } })

\* returns storage, handle and catalog after the call and the error thrown
Table_insert(st, tb, cat, record) ==
    LET key == get_primary_key(record)
    IN  IF contains(tb.index_, key)
        THEN [st |-> st, tb |-> tb, cat |-> cat, err |-> "DuplicateKey"]
        ELSE The({ (LET page == [read_page(a.st, a.page_id) EXCEPT
                                   !.data = Serialize(record), !.record_count = 1,
                                   !.free_space_offset =
                                       PageHeaderSize + SizeOf(Serialize(record))]
                        rid == RecordIdOf(a.page_id, 0)
                    IN  IF ~can_fit(read_page(a.st, a.page_id), SizeOf(Serialize(record)))
                        THEN [st |-> a.st, tb |-> tb, cat |-> cat, err |-> "RecordTooLarge"]
                        ELSE
                        The({ (The({ (([st |-> se.st, tb |-> ([index_ |-> pi.t, secondary_indexes_ |-> se.ws, count_ |-> tb.count_ + 1]), cat |-> sync_catalog_count(cat, ([index_ |-> pi.t, secondary_indexes_ |-> se.ws, count_ |-> tb.count_ + 1])),
                                        err |-> "none"])) :
                                       se \in { InsertEach(pi.st, tb.secondary_indexes_, 1, record, rid) } })) :
                                pi \in { insert(write_page(a.st, a.page_id, page),
                                    tb.index_, key, rid) } })) :
                     a \in { allocate_page(st, "DATA") } })

Table_update(st, tb, cat, record) ==
    LET key == get_primary_key(record)
    IN  The({ (IF rid_opt = << >>
               THEN [st |-> st, tb |-> tb, cat |-> cat, err |-> "NotFound"]
               ELSE (LET old_record == load_record(st, rid_opt[1])
                         page == [read_page(st, rid_opt[1].page_id) EXCEPT
                                    !.data = Serialize(record)]
                     IN  IF ~can_fit(read_page(st, rid_opt[1].page_id), SizeOf(Serialize(record)))
                         THEN [st |-> st, tb |-> tb, cat |-> cat, err |-> "RecordTooLarge"]
                         ELSE
                         The({ ([st |-> se.st, tb |-> [tb EXCEPT !.secondary_indexes_ = se.ws],
                                 cat |-> cat, err |-> "none"]) :
                                 se \in { UpdateEach(write_page(st, rid_opt[1].page_id, page),
                                     tb.secondary_indexes_, 1,
                                     old_record, record, rid_opt[1]) } }))) :
                rid_opt \in { find(tb.index_, key) } })

\* returns storage, handle and catalog after the call and the bool returned
Table_remove(st, tb, cat, key) ==
        The({ (IF rid_opt = << >>
               THEN [st |-> st, tb |-> tb, cat |-> cat, ret |-> FALSE]
               ELSE (The({ (The({ (([st |-> pr.st, tb |-> ([index_ |-> pr.t, secondary_indexes_ |-> se.ws, count_ |-> tb.count_ - 1]), cat |-> sync_catalog_count(cat, ([index_ |-> pr.t, secondary_indexes_ |-> se.ws, count_ |-> tb.count_ - 1])),
                                     ret |-> TRUE])) :
                                    pr \in { remove(deallocate_page(se.st, rid_opt[1].page_id),
                                        tb.index_, key) } })) :
                             se \in { RemoveEach(st, tb.secondary_indexes_, 1,
                                 load_record(st, rid_opt[1]), rid_opt[1]) } }))) :
                rid_opt \in { find(tb.index_, key) } })

\* for (const auto& [key, rid] : batch) storage_->deallocate_page(rid.page_id)
RECURSIVE ClearBatch(_, _, _)
ClearBatch(st, batch, i) ==
    IF i > Len(batch) THEN st
    ELSE ClearBatch(deallocate_page(st, batch[i][2].page_id), batch, i + 1)

\* while (batch_iter.has_more()) ... of clear
RECURSIVE ClearLoop(_, _, _)
ClearLoop(st, t, it) ==
        IF ~has_more(it) THEN st
        ELSE The({ ClearLoop(ClearBatch(st, nb.batch, 1), t, nb.it) :
                     nb \in { next_batch(t, it, BatchSize) } })

\* the secondary indexes are left as they are
Table_clear(st, tb, cat) ==
        The({ [st |-> o.st, tb |-> ([tb EXCEPT !.index_ = o.t, !.count_ = 0]), cat |-> sync_catalog_count(cat, ([tb EXCEPT !.index_ = o.t, !.count_ = 0]))] :
                o \in { BTreeOpen(ClearLoop(st, tb.index_,
                    create_batch_iterator(tb.index_))) } })

\* std::unique_ptr<T>: << >> is nullptr
Table_find(st, tb, key) ==
        The({ (IF rid_opt = << >> THEN << >> ELSE << load_record(st, rid_opt[1]) >>) :
                rid_opt \in { find(tb.index_, key) } })

Table_contains(tb, key) == contains(tb.index_, key)

Table_size(tb) == tb.count_

\* Table::Iterator: load_next_batch until the cursor has no more or a batch
\* comes back empty; the records are loaded from the pages of the batch
RECURSIVE IterateFrom(_, _, _)
IterateFrom(st, t, it) ==
    IF ~has_more(it) THEN << >>
    ELSE LET nb == next_batch(t, it, BatchSize)
         IN  IF nb.batch = << >> THEN << >>
             ELSE [i \in 1 .. Len(nb.batch) |-> load_record(st, nb.batch[i][2])]
                      \o IterateFrom(st, t, nb.it)

\* the for loop of find_if's fetcher over one batch, from position i on;
\* pred holds for the records of P, and the loop breaks when batch_results
\* holds N records
RECURSIVE PushMatching(_, _, _, _, _, _)
PushMatching(st, batch, i, P, N, batch_results) ==
    IF i > Len(batch) THEN batch_results
    ELSE IF load_record(st, batch[i][2]) \notin P
         THEN PushMatching(st, batch, i + 1, P, N, batch_results)
         ELSE IF Len(batch_results) + 1 >= N
              THEN Append(batch_results, load_record(st, batch[i][2]))
              ELSE PushMatching(st, batch, i + 1, P, N,
                                Append(batch_results, load_record(st, batch[i][2])))

\* find_if's fetcher of a Table<T, N>: returns the cursor and the batch
RECURSIVE FetchMatching(_, _, _, _, _, _)
FetchMatching(st, t, it, P, N, batch_results) ==
    IF ~(Len(batch_results) < N /\ has_more(it))
    THEN [it |-> it, batch |-> batch_results]
    ELSE The({ FetchMatching(st, t, nb.it, P, N,
                             PushMatching(st, nb.batch, 1, P, N, batch_results)) :
                 nb \in { next_batch(t, it, N) } })

\* the records a ProxyVector yields after its first batch: operator++ loads
\* the next batch unless the last one was shorter than N
RECURSIVE ProxyRest(_, _, _, _, _, _)
ProxyRest(st, t, it, P, N, exhausted_) ==
    IF exhausted_ THEN << >>
    ELSE The({ (IF f.batch = << >> THEN << >>
                ELSE f.batch \o ProxyRest(st, t, f.it, P, N, Len(f.batch) < N)) :
                 f \in { FetchMatching(st, t, it, P, N, << >>) } })

\* for (const auto& r : find_if(pred)) on a Table<T, N>: the records yielded
\* and the error thrown; begin() of a ProxyVector whose first batch is empty
\* is not end(), and operator* throws
find_if(st, tb, P, N) ==
    The({ (IF f.batch = << >> THEN [out |-> << >>, err |-> "out_of_range"]
           ELSE [out |-> f.batch
                           \o ProxyRest(st, tb.index_, f.it, P, N, Len(f.batch) < N),
                 err |-> "none"]) :
            f \in { FetchMatching(st, tb.index_,
                                   create_batch_iterator(tb.index_), P, N, << >>) } })

\* the iteration as it would be if operator++ ended at the end of the batch
\* instead of loading the next one
Table_iterate_one_batch(st, tb) ==
    LET nb == next_batch(tb.index_, create_batch_iterator(tb.index_), BatchSize)
    IN  [i \in 1 .. Len(nb.batch) |-> load_record(st, nb.batch[i][2])]

\* for (auto it = begin(); it != end(); ++it)
Table_iterate(st, tb) == IterateFrom(st, tb.index_, create_batch_iterator(tb.index_))

\* the first unique index on the field, from position i on
RECURSIVE FindByFrom(_, _, _, _, _)
FindByFrom(st, ws, i, field_name, value) ==
        IF i > Len(ws) THEN << >>
        ELSE IF ws[i].field_name_ = field_name /\ ws[i].is_unique_
             THEN The({ (IF rid_opt # << >>
                         THEN << load_record(st, rid_opt[1]) >>
                         ELSE FindByFrom(st, ws, i + 1, field_name, value)) :
                          rid_opt \in { find_unique(ws[i], value) } })
             ELSE FindByFrom(st, ws, i + 1, field_name, value)

find_by(st, tb, field_name, value) ==
    FindByFrom(st, tb.secondary_indexes_, 1, field_name, value)

\* for (const auto& [key, rid] : batch) wrapper->insert_record(load_record(rid), rid)
RECURSIVE PopulateBatch(_, _, _, _)
PopulateBatch(st, w, batch, i) ==
        IF i > Len(batch) THEN [st |-> st, w |-> w]
        ELSE The({ PopulateBatch(r.st, r.w, batch, i + 1) :
                     r \in { insert_record(st, w, load_record(st, batch[i][2]), batch[i][2]) } })

\* while (batch_iter.has_more()) ... of add_index
RECURSIVE PopulateLoop(_, _, _, _)
PopulateLoop(st, w, t, it) ==
        IF ~has_more(it) THEN [st |-> st, w |-> w]
        ELSE The({ (The({ PopulateLoop(r.st, r.w, t, nb.it) :
                            r \in { PopulateBatch(st, w, nb.batch, 1) } })) :
                     nb \in { next_batch(t, it, BatchSize) } })

\* add_index as it would be without the loop that populates the new index
add_index_unpopulated(st, tb, cat, field_name, is_unique) ==
    LET o == BTreeOpen(st)
        w == [field_name_ |-> field_name, is_unique_ |-> is_unique, tree |-> o.t]
    IN  [st |-> o.st,
         tb |-> [tb EXCEPT !.secondary_indexes_ = Append(@, w)],
         cat |-> [cat EXCEPT !.indexes =
                    Append(@, [field_name |-> field_name,
                               is_unique |-> is_unique,
                               index_root_page |-> o.t.root_page_id_])]]

\* add_index for a field the catalog has no index row for
add_index(st, tb, cat, field_name, is_unique) ==
        The({ (The({ ([st |-> r.st,
                       tb |-> [tb EXCEPT !.secondary_indexes_ = Append(@, r.w)],
                       cat |-> [cat EXCEPT !.indexes =
                                  Append(@, [field_name |-> field_name,
                                             is_unique |-> is_unique,
                                             index_root_page |-> r.w.tree.root_page_id_])]]) :
                       r \in { PopulateLoop(o.st,
                           [field_name_ |-> field_name,
                           is_unique_ |-> is_unique, tree |-> o.t],
                           tb.index_, create_batch_iterator(tb.index_)) } })) :
                o \in { BTreeOpen(st) } })

----------------------------------------------------------------------------
(* SystemCatalog: sc is tables_table_, fields_table_, indexes_table_ (each  *)
(* a Table handle without catalog pointer), next_field_id_, next_index_id_. *)
(* Table names are written as numbers that keep the order of the strings:   *)
(* "_sys_fields" < "_sys_indexes" < "_sys_tables" < "s".  The clock reads 0. *)

SYS_FIELDS == 1
SYS_INDEXES == 2
SYS_TABLES == 3
UserTable == 4

\* Table(storage, table_name, root_page_id)
TableLoad(st, root_page_id) ==
        The({ ([st |-> o.st,
                tb |-> [index_ |-> o.t, secondary_indexes_ |-> << >>,
                        count_ |-> o.t.size_]]) : o \in { PersistentBTreeIndex(st, root_page_id) } })

\* get_all of a catalog table: the rows in leaf-chain order
RowsOf(T, st, tb) ==
        The({ [i \in DOMAIN all |-> load_record_as(T, st, all[i][2])] : all \in { get_all(tb.index_) } })

RECURSIVE MaxOf(_, _, _)
MaxOf(rows, field, i) ==
        IF i > Len(rows) THEN 0
        ELSE The({ (IF rows[i][field] > m THEN rows[i][field] ELSE m) : m \in { MaxOf(rows, field, i + 1) } })

\* the largest field_id itself instead of the one after it
compute_next_field_id_max(st, fields_table_) ==
    IF fields_table_.count_ = 0 THEN 1
    ELSE The({ MaxOf(rows, "field_id", 1) :
                 rows \in { RowsOf("FieldMetadata", st, fields_table_) } })

compute_next_field_id(st, fields_table_) ==
    IF fields_table_.count_ = 0 THEN 1
    ELSE The({ MaxOf(rows, "field_id", 1) + 1 :
                 rows \in { RowsOf("FieldMetadata", st, fields_table_) } })

compute_next_index_id(st, indexes_table_) ==
    IF indexes_table_.count_ = 0 THEN 1
    ELSE The({ MaxOf(rows, "index_id", 1) + 1 :
                 rows \in { RowsOf("IndexMetadata", st, indexes_table_) } })

\* the constructor: the three tables are opened at the given roots
SystemCatalog(st, sys_tables_root, sys_fields_root, sys_indexes_root) ==
        The({ The({ The({ ([st |-> i.st,
                            sc |-> [tables_table_ |-> t.tb, fields_table_ |-> f.tb,
                                    indexes_table_ |-> i.tb,
                                    next_field_id_ |-> compute_next_field_id(i.st, f.tb),
                                    next_index_id_ |-> compute_next_index_id(i.st, i.tb)]]) : i \in { TableLoad(f.st, sys_indexes_root) } }) : f \in { TableLoad(t.st, sys_fields_root) } }) : t \in { TableLoad(st, sys_tables_root) } })

\* the loop of register_table over field_metas, from position i on; a throw
\* of Table::insert leaves the loop
RECURSIVE RegisterFields(_, _, _, _)
RegisterFields(st, sc, field_metas, i) ==
        IF i > Len(field_metas) THEN [st |-> st, sc |-> sc, err |-> "none"]
        ELSE The({ (IF r.err # "none"
                    THEN [st |-> r.st,
                          sc |-> [sc EXCEPT !.next_field_id_ = @ + 1,
                                            !.fields_table_ = r.tb],
                          err |-> r.err]
                    ELSE RegisterFields(r.st,
                                        [sc EXCEPT !.next_field_id_ = @ + 1,
                                                   !.fields_table_ = r.tb],
                                        field_metas, i + 1)) :
                     r \in { Table_insert(st, sc.fields_table_, NoCatalog,
                                          [field_metas[i] EXCEPT
                                              !.field_id = sc.next_field_id_]) } })

\* returns the storage and the catalog after the call and the error thrown
register_table(st, sc, meta, field_metas) ==
        IF Table_contains(sc.tables_table_, meta.table_name)
        THEN [st |-> st, sc |-> sc, err |-> "AlreadyRegistered"]
        ELSE The({ (IF r.err # "none"
                    THEN [st |-> r.st, sc |-> [sc EXCEPT !.tables_table_ = r.tb],
                          err |-> r.err]
                    ELSE RegisterFields(r.st, [sc EXCEPT !.tables_table_ = r.tb],
                                        field_metas, 1)) :
                     r \in { Table_insert(st, sc.tables_table_, NoCatalog, meta) } })

\* returns the storage and the catalog after the call
SystemCatalog_update_record_count(st, sc, table_name, count) ==
        The({ (IF rid_opt = << >> THEN [st |-> st, sc |-> sc]
               ELSE (The({ [st |-> r.st, sc |-> [sc EXCEPT !.tables_table_ = r.tb]] :
                             r \in { Table_update(
                                         st, sc.tables_table_, NoCatalog,
                                         [load_record_as("TableMetadata", st, rid_opt[1]) EXCEPT
                                             !.record_count = count]) } }))) :
                rid_opt \in { find(sc.tables_table_.index_, table_name) } })

\* returns the storage and the catalog after the call
register_index(st, sc, table_name, field_name, field_type, is_unique, root_page_id) ==
    LET meta == [index_id |-> sc.next_index_id_, table_name |-> table_name,
                 field_name |-> field_name, field_type |-> field_type,
                 is_unique |-> is_unique, index_root_page |-> root_page_id,
                 created_timestamp |-> 0, is_active |-> TRUE]
    IN  The({ ([st |-> r.st,
                sc |-> [sc EXCEPT !.next_index_id_ = @ + 1,
                                  !.indexes_table_ = r.tb]]) :
                r \in { Table_insert(st, sc.indexes_table_, NoCatalog, meta) } })

get_table_indexes(st, sc, table_name) ==
    LET Mine(idx) == idx.table_name = table_name
    IN  IF sc.indexes_table_.count_ = 0 THEN << >>
        ELSE The({ SelectSeq(rows, Mine) :
                     rows \in { RowsOf("IndexMetadata", st, sc.indexes_table_) } })

----------------------------------------------------------------------------
(* Database: d is open, catalog_ and whether named_tables_ holds "s";       *)
(* the handle of that table is kept beside it.                              *)

\* user types declared with LEARNQL_PROPERTIES: WideTypes[n] has the int
\* fields FieldNames[1] .. FieldNames[n], the first one the primary key
WideTypes == << "W1", "W2", "W3", "W4", "W5", "W6", "W7", "W8", "W9", "W10" >>
FieldNames == << "f1", "f2", "f3", "f4", "f5", "f6", "f7", "f8", "f9", "f10" >>

\* T::reflect_fields(): name, type, order, is_primary_key
reflect_fields(T) ==
    IF T = "TableMetadata"
    THEN << << "table_name", "std::string", 0, TRUE >>,
            << "type_name", "std::string", 1, FALSE >>,
            << "index_root_page", "uint64_t", 2, FALSE >>,
            << "record_count", "std::size_t", 3, FALSE >>,
            << "created_timestamp", "uint64_t", 4, FALSE >>,
            << "is_system_table", "bool", 5, FALSE >> >>
    ELSE IF T = "FieldMetadata"
    THEN << << "field_id", "uint64_t", 0, TRUE >>,
            << "table_name", "std::string", 1, FALSE >>,
            << "field_name", "std::string", 2, FALSE >>,
            << "field_type", "std::string", 3, FALSE >>,
            << "field_order", "uint16_t", 4, FALSE >>,
            << "is_primary_key", "bool", 5, FALSE >> >>
    ELSE IF T = "Student"
    THEN << << "student_id", "int", 0, TRUE >>,
            << "name", "std::string", 1, FALSE >> >>
    ELSE IF \E n \in DOMAIN WideTypes : WideTypes[n] = T
    THEN [i \in 1 .. (CHOOSE n \in DOMAIN WideTypes : WideTypes[n] = T) |->
             << FieldNames[i], "int", i - 1, i = 1 >>]
    ELSE << >>

\* IndexMetadata has no reflect_fields, so it yields no rows
extract_field_metadata(T, table_name) ==
    LET infos == reflect_fields(T)
    IN  [i \in DOMAIN infos |->
            [field_id |-> i, table_name |-> table_name,
             field_name |-> infos[i][1], field_type |-> infos[i][2],
             field_order |-> infos[i][3], is_primary_key |-> infos[i][4]]]

TableMetadataOf(table_name, T, root_page, is_system_table) ==
    [table_name |-> table_name, type_name |-> T, index_root_page |-> root_page,
     record_count |-> 0, created_timestamp |-> 0,
     is_system_table |-> is_system_table]

\* returns the storage and the catalog after the call
register_system_table(st, sc, T, table_name) ==
    LET root_page == IF table_name = SYS_TABLES THEN st.sys_tables_root_
                     ELSE IF table_name = SYS_FIELDS THEN st.sys_fields_root_
                     ELSE 0
    IN  The({ [st |-> r.st, sc |-> r.sc] :
                r \in { register_table(
                            st, sc,
                            TableMetadataOf(table_name, T, root_page, TRUE),
                            extract_field_metadata(T, table_name)) } })

\* ~PersistentSecondaryIndex of every wrapper, from position i on: the tree of
\* the index is flushed by ~PersistentBTreeIndex
RECURSIVE CloseEach(_, _, _)
CloseEach(st, ws, i) ==
        IF i > Len(ws) THEN st
        ELSE The({ CloseEach(r.st, ws, i + 1) : r \in { flush(st, ws[i].tree) } })

\* ~Table: index_->flush(), then the members: secondary_indexes_ and index_,
\* whose flush finds nothing dirty
TableClose(st, tb) ==
        The({ CloseEach(r.st, tb.secondary_indexes_, 1) : r \in { flush(st, tb.index_) } })

\* steps 1 to 3 of bootstrap_system_catalog: a temporary Table gives the root
BootstrapTables(st) ==
        The({ (The({ TableClose(st1, o.tb) :
                       st1 \in { set_sys_tables_root(o.st,
                                                      o.tb.index_.root_page_id_) } })) : o \in { TableLoad(st, 0) } })

BootstrapFields(st) ==
        The({ (The({ TableClose(st1, o.tb) :
                       st1 \in { set_sys_fields_root(o.st,
                                                      o.tb.index_.root_page_id_) } })) : o \in { TableLoad(st, 0) } })

BootstrapIndexes(st) ==
        The({ (The({ TableClose(st1, o.tb) :
                       st1 \in { set_sys_indexes_root(o.st,
                                                      o.tb.index_.root_page_id_) } })) : o \in { TableLoad(st, 0) } })

\* returns the storage and the catalog
bootstrap_system_catalog(st) ==
        The({ The({ The({ (The({ (The({ (The({ register_system_table(r3.st, r3.sc, "IndexMetadata", SYS_INDEXES) :
                                                 r3 \in { register_system_table(r2.st, r2.sc, "FieldMetadata",
                                                                                SYS_FIELDS) } })) :
                                          r2 \in { register_system_table(r1.st, r1.sc, "TableMetadata",
                                                                         SYS_TABLES) } })) :
                                   r1 \in { SystemCatalog(st3, st3.sys_tables_root_,
                                                          st3.sys_fields_root_,
                                                          st3.sys_indexes_root_) } })) : st3 \in { BootstrapIndexes(st2) } }) : st2 \in { BootstrapFields(st1) } }) : st1 \in { BootstrapTables(st) } })

\* returns the storage and the catalog
initialize_system_catalog(st) ==
        IF st.sys_tables_root_ = 0 \/ st.sys_fields_root_ = 0
        THEN bootstrap_system_catalog(st)
        ELSE IF st.sys_indexes_root_ = 0
             THEN The({ (SystemCatalog(st1, st1.sys_tables_root_, st1.sys_fields_root_,
                                       st1.sys_indexes_root_)) : st1 \in { BootstrapIndexes(st) } })
             ELSE SystemCatalog(st, st.sys_tables_root_, st.sys_fields_root_,
                                st.sys_indexes_root_)

NoFile == [p \in {} |-> 0]

\* Database(file_path): file is NoFile when the path does not exist
Database(file) ==
        The({ The({ ([st |-> r.st,
                      d |-> [open |-> TRUE, catalog_ |-> r.sc, named_tables_ |-> FALSE]]) : r \in { initialize_system_catalog(st) } }) :
                st \in { IF file = NoFile THEN create_new_database
                         ELSE load_metadata(file) } })

\* table<Student>("s"): returns the storage, the database, the table handle
\* and the error thrown; the table is kept in named_tables_ before
\* register_table runs
Database_table(st, d, tb) ==
        IF d.named_tables_
        THEN [st |-> st, d |-> d, tb |-> tb, err |-> "none"]
        ELSE The({ (The({ ([st |-> r.st,
                            d |-> [open |-> TRUE, catalog_ |-> r.sc, named_tables_ |-> TRUE],
                            tb |-> o.tb, err |-> r.err]) :
                            r \in { register_table(
                                        o.st, d.catalog_,
                                        TableMetadataOf(UserTable, "Student",
                                                        o.tb.index_.root_page_id_, FALSE),
                                        extract_field_metadata("Student", UserTable)) } })) : o \in { TableLoad(st, 0) } })

Database_flush(st) == flush_all(st)

\* ~Database: flush(), then the members in reverse order: catalog_ (its three
\* tables in reverse order), named_tables_, storage_.  Returns the file.
Database_close(st, d, tb) ==
        The({ (The({ (The({ (The({ (The({ flush_all(st5).file :
                                            st5 \in { IF d.named_tables_ THEN TableClose(st4, tb)
                                                      ELSE st4 } })) :
                                     st4 \in { TableClose(st3, d.catalog_.tables_table_) } })) :
                              st3 \in { TableClose(st2, d.catalog_.fields_table_) } })) :
                       st2 \in { TableClose(st1, d.catalog_.indexes_table_) } })) : st1 \in { Database_flush(st) } })

\* the storage of a database that is not open: only the file is left
AtRest(file) ==
    [load_metadata(file) EXCEPT !.pages = [p \in {} |-> 0]]

\* Table::insert on a table whose catalog_ is the SystemCatalog: the last step
\* is sync_catalog_count.  Returns storage, database and handle after the call
\* and the error thrown.
Db_insert(st, d, tb, record) ==
        The({ (IF r.err # "none"
               THEN [st |-> r.st, d |-> d, tb |-> r.tb, err |-> r.err]
               ELSE The({ ([st |-> u.st, d |-> [d EXCEPT !.catalog_ = u.sc], tb |-> r.tb,
                            err |-> r.err]) :
                            u \in { SystemCatalog_update_record_count(
                                        r.st, d.catalog_, UserTable, r.tb.count_) } })) : r \in { Table_insert(st, tb, NoCatalog, record) } })

\* Table::remove on a table whose catalog_ is the SystemCatalog
Db_remove(st, d, tb, key) ==
        The({ (IF ~r.ret
               THEN [st |-> r.st, d |-> d, tb |-> r.tb, ret |-> r.ret]
               ELSE The({ ([st |-> u.st, d |-> [d EXCEPT !.catalog_ = u.sc], tb |-> r.tb,
                            ret |-> r.ret]) :
                            u \in { SystemCatalog_update_record_count(
                                        r.st, d.catalog_, UserTable, r.tb.count_) } })) : r \in { Table_remove(st, tb, NoCatalog, key) } })

\* the first row of existing_indexes on the field, from position i on
RECURSIVE ExistingIndex(_, _, _)
ExistingIndex(existing_indexes, field_name, i) ==
    IF i > Len(existing_indexes) THEN << >>
    ELSE IF existing_indexes[i].field_name = field_name
         THEN << existing_indexes[i] >>
         ELSE ExistingIndex(existing_indexes, field_name, i + 1)

\* Table::add_index on a table whose catalog_ is the SystemCatalog: an index
\* the catalog has a row for is opened at the root of the row and is neither
\* populated nor registered.  Returns storage, database and handle.
Db_add_index(st, d, tb, field_name, is_unique) ==
        The({ (IF idx_opt = << >>
               THEN The({ (The({ [st |-> u.st, d |-> [d EXCEPT !.catalog_ = u.sc], tb |-> r.tb] :
                                   u \in { register_index(
                                               r.st, d.catalog_, UserTable, field_name,
                                               "std::string", is_unique,
                                               r.tb.secondary_indexes_[
                                                   Len(r.tb.secondary_indexes_)
                                               ].tree.root_page_id_) } })) :
                            r \in { add_index(st, tb, NoCatalog, field_name,
                                              is_unique) } })
               ELSE The({ ([st |-> o.st, d |-> d,
                            tb |-> [tb EXCEPT !.secondary_indexes_ =
                                       Append(@, [field_name_ |-> field_name,
                                                  is_unique_ |-> idx_opt[1].is_unique,
                                                  tree |-> o.t])]]) :
                            o \in { PersistentBTreeIndex(
                                        st, idx_opt[1].index_root_page) } })) :
                idx_opt \in { ExistingIndex(
                                 get_table_indexes(st, d.catalog_, UserTable),
                                 field_name, 1) } })

----------------------------------------------------------------------------
(* The stand-alone B+Tree: one handle on a fresh database, driven by        *)
(* insert, remove and one batch cursor at a time.  The tree is not mutated  *)
(* while a cursor is open.                                                  *)

NoTree ==
    [root_page_id_ |-> 0, size_ |-> 0, node_cache_ |-> [p \in {} |-> 0],
     dirty_nodes_ |-> {}]

NoCursor ==
    [current_leaf_id_ |-> 0, current_key_index_ |-> 0, exhausted_ |-> TRUE,
     root_page_id_ |-> 0]

NoIter == [active |-> FALSE, BatchSize |-> 0, it |-> NoCursor, out |-> << >>]

NoTable == [index_ |-> NoTree, secondary_indexes_ |-> << >>, count_ |-> 0]

\* no Database object: the specifications of the tree and of the table alone
NoDatabase == [open |-> FALSE, catalog_ |-> << >>, named_tables_ |-> FALSE]

TreeInit ==
    \E o \in { BTreeOpen(create_new_database) } :
        /\ storage = o.st
        /\ index = o.t
        /\ iter = NoIter
        /\ db = NoDatabase
        /\ table = NoTable
        /\ catalog = NoCatalog

BT_Insert(k, v) ==
    /\ ~iter.active
    /\ \E r \in { insert(storage, index, k, v) } :
           /\ r.st.next_page_id_ <= MaxPages + 1
           /\ storage' = r.st
           /\ index' = r.t
    /\ UNCHANGED << iter, table, catalog, db >>

BT_Remove(k) ==
    /\ ~iter.active
    /\ \E r \in { remove(storage, index, k) } :
           /\ storage' = r.st
           /\ index' = r.t
    /\ UNCHANGED << iter, table, catalog, db >>

BT_CreateBatchIterator(n) ==
    /\ ~iter.active
    /\ iter' = [active |-> TRUE, BatchSize |-> n,
                it |-> create_batch_iterator(index), out |-> << >>]
    /\ UNCHANGED << storage, index, table, catalog, db >>

BT_NextBatch ==
    /\ iter.active
    /\ has_more(iter.it)
    /\ \E r \in { next_batch(index, iter.it, iter.BatchSize) } :
           iter' = [iter EXCEPT !.it = r.it, !.out = @ \o r.batch]
    /\ UNCHANGED << storage, index, table, catalog, db >>

\* the caller's loop  while (iter.has_more()) ...  ends and the cursor dies
BT_DropIterator ==
    /\ iter.active
    /\ ~has_more(iter.it)
    /\ iter' = NoIter
    /\ UNCHANGED << storage, index, table, catalog, db >>

TreeNext ==
    \/ \E k \in Keys, v \in Values : BT_Insert(k, v)
    \/ \E k \in Keys : BT_Remove(k)
    \/ \E n \in 1 .. MaxBatch : BT_CreateBatchIterator(n)
    \/ BT_NextBatch
    \/ BT_DropIterator

TreeSpec == TreeInit /\ [][TreeNext]_vars

\* the tree with a cursor whose caller goes on calling next_batch after
\* has_more() is false, and calls reset; iter.out are the pairs returned
\* since the cursor was made or reset
Cu_NextBatch ==
    /\ iter.active
    /\ \E r \in { next_batch(index, iter.it, iter.BatchSize) } :
           iter' = [iter EXCEPT !.it = r.it, !.out = @ \o r.batch]
    /\ UNCHANGED << storage, index, table, catalog, db >>

Cu_Reset ==
    /\ iter.active
    /\ iter' = [iter EXCEPT !.it = reset(index, @), !.out = << >>]
    /\ UNCHANGED << storage, index, table, catalog, db >>

CursorNext ==
    \/ \E k \in Keys, v \in Values : BT_Insert(k, v)
    \/ \E k \in Keys : BT_Remove(k)
    \/ \E n \in 1 .. MaxBatch : BT_CreateBatchIterator(n)
    \/ Cu_NextBatch
    \/ Cu_Reset
    \/ BT_DropIterator

CursorSpec == TreeInit /\ [][CursorNext]_vars

----------------------------------------------------------------------------
(* The table: one Table<Student> on a fresh database, registered in the     *)
(* catalog, driven by add_index, insert, update and remove.                 *)

MaxName == 2         \* values of the field name are 1 .. MaxName
MaxTablePages == 7   \* no call may push next_page_id_ beyond MaxTablePages + 1

Names == 1 .. MaxName
Records == [id : Keys, name : Names]

TableInit ==
    \E o \in { TableOpen(create_new_database) } :
        /\ storage = o.st
        /\ table = o.tb
        /\ catalog = NoCatalog
        /\ index = NoTree
        /\ iter = NoIter
        /\ db = NoDatabase

T_AddIndex ==
    /\ \A i \in 1 .. Len(catalog.indexes) : catalog.indexes[i].field_name # "name"
    /\ \E r \in { add_index(storage, table, catalog, "name", TRUE) } :
           /\ r.st.next_page_id_ <= MaxTablePages + 1
           /\ storage' = r.st
           /\ table' = r.tb
           /\ catalog' = r.cat
    /\ UNCHANGED << index, iter, db >>

T_Insert(record) ==
    /\ \E r \in { Table_insert(storage, table, catalog, record) } :
           /\ r.st.next_page_id_ <= MaxTablePages + 1
           /\ storage' = r.st
           /\ table' = r.tb
           /\ catalog' = r.cat
    /\ UNCHANGED << index, iter, db >>

T_Update(record) ==
    /\ \E r \in { Table_update(storage, table, catalog, record) } :
           /\ r.st.next_page_id_ <= MaxTablePages + 1
           /\ storage' = r.st
           /\ table' = r.tb
           /\ catalog' = r.cat
    /\ UNCHANGED << index, iter, db >>

T_Remove(k) ==
    /\ \E r \in { Table_remove(storage, table, catalog, k) } :
           /\ storage' = r.st
           /\ table' = r.tb
           /\ catalog' = r.cat
    /\ UNCHANGED << index, iter, db >>

T_Clear ==
    /\ \E r \in { Table_clear(storage, table, catalog) } :
           /\ r.st.next_page_id_ <= MaxTablePages + 1
           /\ storage' = r.st
           /\ table' = r.tb
           /\ catalog' = r.cat
    /\ UNCHANGED << index, iter, db >>

TableNext ==
    \/ T_AddIndex
    \/ \E record \in Records : T_Insert(record)
    \/ \E record \in Records : T_Update(record)
    \/ \E k \in Keys : T_Remove(k)

TableSpec == TableInit /\ [][TableNext]_vars

----------------------------------------------------------------------------
(* The table with a multi-value index on field name: the fresh table after  *)
(* add_index(name, MultiValue), driven by insert, update and remove.        *)

MaxMultiPages == 10  \* no call may push next_page_id_ beyond MaxMultiPages + 1

HasIndexOn(tb, field_name) ==
    \E i \in 1 .. Len(tb.secondary_indexes_) :
        tb.secondary_indexes_[i].field_name_ = field_name

MultiInit ==
    \E o \in { TableOpen(create_new_database) } :
        \E r \in { add_index(o.st, o.tb, NoCatalog, "name", FALSE) } :
            /\ storage = r.st
            /\ table = r.tb
            /\ catalog = r.cat
            /\ index = NoTree
            /\ iter = NoIter
            /\ db = NoDatabase

M_Insert(record) ==
    /\ \E r \in { Table_insert(storage, table, catalog, record) } :
           /\ r.st.next_page_id_ <= MaxMultiPages + 1
           /\ storage' = r.st
           /\ table' = r.tb
           /\ catalog' = r.cat
    /\ UNCHANGED << index, iter, db >>

M_Update(record) ==
    /\ \E r \in { Table_update(storage, table, catalog, record) } :
           /\ r.st.next_page_id_ <= MaxMultiPages + 1
           /\ storage' = r.st
           /\ table' = r.tb
           /\ catalog' = r.cat
    /\ UNCHANGED << index, iter, db >>

M_Remove(k) ==
    /\ \E r \in { Table_remove(storage, table, catalog, k) } :
           /\ storage' = r.st
           /\ table' = r.tb
           /\ catalog' = r.cat
    /\ UNCHANGED << index, iter, db >>

MultiNext ==
    \/ \E record \in Records : M_Insert(record)
    \/ \E record \in Records : M_Update(record)
    \/ \E k \in Keys : M_Remove(k)

MultiSpec == MultiInit /\ [][MultiNext]_vars

\* the table without secondary indexes driven by insert, remove and clear
ClearNext ==
    \/ \E record \in Records : T_Insert(record)
    \/ \E k \in Keys : T_Remove(k)
    \/ T_Clear

ClearSpec == TableInit /\ [][ClearNext]_vars

\* the table driven by add_index(name, Unique), insert, remove and clear
ClearIndexNext ==
    \/ T_AddIndex
    \/ \E record \in Records : T_Insert(record)
    \/ \E k \in Keys : T_Remove(k)
    \/ T_Clear

ClearIndexSpec == TableInit /\ [][ClearIndexNext]_vars

\* the table filled in key order beyond one batch of the cursor, and removes
\* of the keys of its first leaves
MaxScanKey == 14     \* the keys are 1 .. MaxScanKey
MaxScanPages == 40   \* no call may push next_page_id_ beyond MaxScanPages + 1

ScanKeys == 1 .. MaxScanKey

\* the key after the largest key of the leaf chain
NextKey(tb) ==
    CHOOSE k \in 1 .. MaxScanKey + 1 :
        /\ \A i \in DOMAIN get_all(tb.index_) : get_all(tb.index_)[i][1] < k
        /\ k = 1 \/ \E i \in DOMAIN get_all(tb.index_) : get_all(tb.index_)[i][1] = k - 1

\* the inserts come before the first remove
Sc_Insert(record) ==
    /\ record.id = NextKey(table)
    /\ storage.free_list_head_ = 0
    /\ \E r \in { Table_insert(storage, table, catalog, record) } :
           /\ r.st.next_page_id_ <= MaxScanPages + 1
           /\ storage' = r.st
           /\ table' = r.tb
           /\ catalog' = r.cat
    /\ UNCHANGED << index, iter, db >>

Sc_Remove(k) ==
    /\ \E r \in { Table_remove(storage, table, catalog, k) } :
           /\ storage' = r.st
           /\ table' = r.tb
           /\ catalog' = r.cat
    /\ UNCHANGED << index, iter, db >>

ScanNext ==
    \/ \E record \in [id : ScanKeys, name : {1}] : Sc_Insert(record)
    \/ \E k \in Keys : Sc_Remove(k)

ScanSpec == TableInit /\ [][ScanNext]_vars

\* the table with students whose serialized size is 8 bytes, half a page,
\* one byte more, a page, and one byte more
MaxSizeKey == 2      \* the keys are 1 .. MaxSizeKey
MaxSizePages == 7    \* no call may push next_page_id_ beyond MaxSizePages + 1

SizedNames ==
    { 0, DATA_SIZE \div 2 - 8, DATA_SIZE \div 2 - 7, DATA_SIZE - 8, DATA_SIZE - 7 }

SizedRecords == [id : 1 .. MaxSizeKey, name : SizedNames]

Sz_Insert(record) ==
    /\ \E r \in { Table_insert(storage, table, catalog, record) } :
           /\ r.st.next_page_id_ <= MaxSizePages + 1
           /\ storage' = r.st
           /\ table' = r.tb
           /\ catalog' = r.cat
    /\ UNCHANGED << index, iter, db >>

Sz_Update(record) ==
    /\ \E r \in { Table_update(storage, table, catalog, record) } :
           /\ storage' = r.st
           /\ table' = r.tb
           /\ catalog' = r.cat
    /\ UNCHANGED << index, iter, db >>

SizeNext ==
    \/ \E record \in SizedRecords : Sz_Insert(record)
    \/ \E record \in SizedRecords : Sz_Update(record)

SizeSpec == TableInit /\ [][SizeNext]_vars

\* the stand-alone B+Tree driven by insert alone
----------------------------------------------------------------------------
(* The database: one Database object on one file, with the table "s" of     *)
(* Student and a unique index on its field name.  Every student has a name  *)
(* of its own, and the students are inserted with the ids 1, 2, ... in turn *)
(* after the size of the table.  The object is destroyed and a new one is   *)
(* opened on the file.                                                      *)

MaxDbPages == 57     \* no call may push next_page_id_ beyond MaxDbPages + 1

DbRecords == { [id |-> k, name |-> k] : k \in Keys }

\* the student inserted next
NextStudent(tb) == { record \in DbRecords : record.id = Table_size(tb) + 1 }

DbInit ==
    \E o \in { Database(NoFile) } :
        /\ storage = o.st
        /\ db = o.d
        /\ table = NoTable
        /\ catalog = NoCatalog
        /\ index = NoTree
        /\ iter = NoIter

D_Table ==
    /\ db.open
    /\ ~db.named_tables_
    /\ \E r \in { Database_table(storage, db, table) } :
           /\ r.st.next_page_id_ <= MaxDbPages + 1
           /\ storage' = r.st
           /\ db' = r.d
           /\ table' = r.tb
    /\ UNCHANGED << index, iter, catalog >>

D_Insert ==
    /\ db.open
    /\ db.named_tables_
    /\ \E record \in NextStudent(table) :
           \E r \in { Db_insert(storage, db, table, record) } :
               /\ r.st.next_page_id_ <= MaxDbPages + 1
               /\ storage' = r.st
               /\ db' = r.d
               /\ table' = r.tb
    /\ UNCHANGED << index, iter, catalog >>

D_AddIndex ==
    /\ db.open
    /\ db.named_tables_
    /\ ~HasIndexOn(table, "name")
    /\ \E r \in { Db_add_index(storage, db, table, "name", TRUE) } :
           /\ r.st.next_page_id_ <= MaxDbPages + 1
           /\ storage' = r.st
           /\ db' = r.d
           /\ table' = r.tb
    /\ UNCHANGED << index, iter, catalog >>

D_Flush ==
    /\ db.open
    /\ storage.dirty_pages_ # {}
    /\ storage' = Database_flush(storage)
    /\ UNCHANGED << index, iter, table, catalog, db >>

D_Close ==
    /\ db.open
    /\ storage' = AtRest(Database_close(storage, db, table))
    /\ db' = NoDatabase
    /\ table' = NoTable
    /\ UNCHANGED << index, iter, catalog >>

D_Open ==
    /\ ~db.open
    /\ \E o \in { Database(storage.file) } :
           /\ storage' = o.st
           /\ db' = o.d
    /\ UNCHANGED << index, iter, table, catalog >>

DbNext ==
    \/ D_Table
    \/ D_Insert
    \/ D_AddIndex
    \/ D_Flush
    \/ D_Close
    \/ D_Open

DbSpec == DbInit /\ [][DbNext]_vars

TreeInsertNext == \E k \in Keys, v \in Values : BT_Insert(k, v)

TreeInsertSpec == TreeInit /\ [][TreeInsertNext]_vars

\* the stand-alone B+Tree grown to three levels: inserts of the keys
\* 1 .. MaxDeepKey in any order, each with the value 1, and removes of the
\* smallest keys
MaxDeepKey == 7      \* the keys are 1 .. MaxDeepKey
MaxDeepRemove == 2   \* the keys removed are 1 .. MaxDeepRemove
MaxDeepPages == 9    \* no call may push next_page_id_ beyond MaxDeepPages + 1

DeepKeys == 1 .. MaxDeepKey

Dp_Insert(k) ==
    /\ \E r \in { insert(storage, index, k, 1) } :
           /\ r.st.next_page_id_ <= MaxDeepPages + 1
           /\ storage' = r.st
           /\ index' = r.t
    /\ UNCHANGED << iter, table, catalog, db >>

Dp_Remove(k) ==
    /\ \E r \in { remove(storage, index, k) } :
           /\ storage' = r.st
           /\ index' = r.t
    /\ UNCHANGED << iter, table, catalog, db >>

DeepNext ==
    \/ \E k \in DeepKeys : Dp_Insert(k)
    \/ \E k \in 1 .. MaxDeepRemove : Dp_Remove(k)

DeepSpec == TreeInit /\ [][DeepNext]_vars

----------------------------------------------------------------------------
(* StorageEngine with its cache: an engine e is cache_size_, the counters,  *)
(* page_cache_, dirty_pages_ and the file.  page_cache_ is an unordered_map, *)
(* so the page evict_page meets first is any page of the cache, and a call   *)
(* that may evict returns the set of its outcomes; a call that throws has no *)
(* outcome.  The payload of page 0 is next_page_id, free_list_head,          *)
(* sys_tables_root, sys_fields_root, version and sys_indexes_root, in the    *)
(* order of their offsets.  The checksum of the header is not modelled.      *)

MetaVersion == 5

With(f, p, x) == [q \in DOMAIN f \cup {p} |-> IF q = p THEN x ELSE f[q]]

Without(f, p) == [q \in DOMAIN f \ {p} |-> f[q]]

StorageEngine_flush_all(e) ==
    [e EXCEPT
        !.file = [p \in DOMAIN e.file \cup
                          (e.dirty_pages_ \cap DOMAIN e.page_cache_) |->
                     IF p \in e.dirty_pages_ \cap DOMAIN e.page_cache_
                     THEN e.page_cache_[p] ELSE e.file[p]],
        !.dirty_pages_ = {}]

StorageEngine_flush_page(e, page_id) ==
    IF page_id \notin e.dirty_pages_ THEN e
    ELSE [e EXCEPT
            !.file = IF page_id \in DOMAIN e.page_cache_
                     THEN With(e.file, page_id, e.page_cache_[page_id])
                     ELSE @,
            !.dirty_pages_ = @ \ {page_id}]

\* the engines evict_page may leave
evict_page(e) ==
    LET clean == DOMAIN e.page_cache_ \ e.dirty_pages_
        Erased(e1, page_id) ==
            [e1 EXCEPT !.page_cache_ = Without(e1.page_cache_, page_id)]
    IN  IF DOMAIN e.page_cache_ = {} THEN { e }
        ELSE IF clean # {} THEN { Erased(e, page_id) : page_id \in clean }
        ELSE { Erased(StorageEngine_flush_page(e, page_id), page_id) :
                 page_id \in DOMAIN e.page_cache_ }

\* the outcomes of read_page: the engine after the call and the page
\* returned; a page that is not in the file cannot be read
StorageEngine_read_page(e, page_id) ==
    IF page_id \in DOMAIN e.page_cache_
    THEN { [e |-> e, page |-> e.page_cache_[page_id]] }
    ELSE IF page_id \notin DOMAIN e.file THEN {}
    ELSE LET Added(e1) ==
                 [e |-> [e1 EXCEPT !.page_cache_ =
                                      With(@, page_id, e.file[page_id])],
                  page |-> e.file[page_id]]
         IN  IF Cardinality(DOMAIN e.page_cache_) >= e.cache_size_
             THEN { Added(e1) : e1 \in evict_page(e) }
             ELSE { Added(e) }

\* write_page as it would be without dirty_pages_.insert(page_id)
write_page_unmarked(e, page_id, page) ==
    [e EXCEPT !.page_cache_ = With(@, page_id, page)]

StorageEngine_write_page(e, page_id, page) ==
    LET Cached(e1) ==
            IF Cardinality(e1.dirty_pages_) > e1.cache_size_ \div 2
            THEN StorageEngine_flush_all(e1)
            ELSE e1
    IN  The({ Cached(e1) :
                e1 \in { [e EXCEPT !.page_cache_ = With(@, page_id, page),
                                   !.dirty_pages_ = @ \cup {page_id}] } })

\* page 0 as read, with the five fields save_metadata writes
StorageEngine_save_metadata(e) ==
    LET Saved(r) ==
            StorageEngine_write_page(r.e, 0,
                [r.page EXCEPT
                    !.data = << r.e.next_page_id_, r.e.free_list_head_,
                                r.e.sys_tables_root_, r.e.sys_fields_root_,
                                r.page.data[MetaVersion],
                                r.e.sys_indexes_root_ >>])
    IN  { Saved(r) : r \in StorageEngine_read_page(e, 0) }

\* allocate_page as it would be if the page read from the free list were
\* handed out with its type set, instead of a new Page(page_id, type)
allocate_page_as_read(e, type) ==
    IF e.free_list_head_ # 0
    THEN UNION { { [e |-> e2, page_id |-> e.free_list_head_] :
                     e2 \in StorageEngine_save_metadata(
                                StorageEngine_write_page(
                                    [r.e EXCEPT !.free_list_head_ = r.page.next_page_id],
                                    e.free_list_head_,
                                    [r.page EXCEPT !.page_type = type])) } :
                   r \in StorageEngine_read_page(e, e.free_list_head_) }
    ELSE { [e |-> e2, page_id |-> e.next_page_id_] :
             e2 \in StorageEngine_save_metadata(
                        StorageEngine_write_page(
                            [e EXCEPT !.next_page_id_ = @ + 1], e.next_page_id_,
                            PageOf(e.next_page_id_, type))) }

\* the outcomes of allocate_page: the engine and the page id handed out
StorageEngine_allocate_page(e, type) ==
    LET Handed(e1, page_id) ==
            { [e |-> e2, page_id |-> page_id] :
                e2 \in StorageEngine_save_metadata(
                           StorageEngine_write_page(e1, page_id,
                                                    PageOf(page_id, type))) }
        Reused(r) ==
            Handed([r.e EXCEPT !.free_list_head_ = r.page.next_page_id],
                   e.free_list_head_)
    IN  IF e.free_list_head_ # 0
        THEN UNION { Reused(r) :
                       r \in StorageEngine_read_page(e, e.free_list_head_) }
        ELSE Handed([e EXCEPT !.next_page_id_ = @ + 1], e.next_page_id_)

\* deallocate_page as it would be if clear() ran before the header is set, so
\* that the freed page keeps the link to the old head
deallocate_page_cleared_first(e, page_id) ==
    LET Freed(r) ==
            StorageEngine_save_metadata(
                StorageEngine_write_page(
                    [r.e EXCEPT !.free_list_head_ = page_id], page_id,
                    [PageClear(r.page) EXCEPT
                        !.page_type = "FREE",
                        !.next_page_id = r.e.free_list_head_]))
    IN  UNION { Freed(r) : r \in StorageEngine_read_page(e, page_id) }

\* page_id is not 0
StorageEngine_deallocate_page(e, page_id) ==
    LET Freed(r) ==
            StorageEngine_save_metadata(
                StorageEngine_write_page(
                    [r.e EXCEPT !.free_list_head_ = page_id], page_id,
                    PageClear([r.page EXCEPT
                                  !.page_type = "FREE",
                                  !.next_page_id = r.e.free_list_head_])))
    IN  UNION { Freed(r) : r \in StorageEngine_read_page(e, page_id) }

\* the file create_new_database writes when the build writes this version
NewFile(version) ==
    [p \in {0} |->
        [PageOf(0, "METADATA") EXCEPT !.data = << 1, 0, 0, 0, version, 0 >>]]

\* the constructor on an existing file: load_metadata, which reads page 0
\* through the cache and throws on a version other than 2 and 3
StorageEngine(file, cache_size) ==
    LET empty == [cache_size_ |-> cache_size, next_page_id_ |-> 1,
                  free_list_head_ |-> 0, sys_tables_root_ |-> 0,
                  sys_fields_root_ |-> 0, sys_indexes_root_ |-> 0,
                  page_cache_ |-> [p \in {} |-> 0], dirty_pages_ |-> {},
                  file |-> file]
        Loaded(r) ==
            [r.e EXCEPT
                !.next_page_id_ = r.page.data[1],
                !.free_list_head_ = r.page.data[2],
                !.sys_tables_root_ = r.page.data[3],
                !.sys_fields_root_ = r.page.data[4],
                !.sys_indexes_root_ =
                    IF r.page.data[MetaVersion] = 2 THEN 0 ELSE r.page.data[6]]
    IN  { Loaded(r) : r \in { q \in StorageEngine_read_page(empty, 0) :
                                q.page.data[MetaVersion] \in {2, 3} } }

----------------------------------------------------------------------------
(* The storage engine alone: one StorageEngine on a file made by a build of *)
(* version 2 or 3, driven by a client that allocates pages, writes payloads *)
(* to the pages it holds, reads them, deallocates them, flushes, and        *)
(* destroys the engine and opens the file again.  Beside the engine se the  *)
(* state keeps what the client did: written is the page last passed to      *)
(* write_page for each page the client holds, freed the pages deallocated   *)
(* and not handed out since (latest first), used the pages that carried a   *)
(* payload when they were deallocated, opened the version of the file at    *)
(* the last open and saves the metadata saves since, last the call before  *)
(* this state when it was an allocate.                                       *)

MaxStoragePages == 3     \* no call may push next_page_id_ beyond this + 1
MaxCacheSize == 2        \* cache sizes are 0 .. MaxCacheSize
MaxPayload == 2          \* payloads written by the client are 1 .. MaxPayload

\* head is the page freed last and not handed out before the call, or 0
NoCall == [op |-> "none", page_id |-> 0, type |-> "FREE", head |-> 0,
           grew |-> FALSE, reused |-> FALSE]

StorageInit ==
    /\ \E version \in {2, 3}, cache_size \in 0 .. MaxCacheSize :
         \E e \in StorageEngine(NewFile(version), cache_size) :
           storage = [se |-> e, written |-> [p \in {} |-> 0],
                      freed |-> << >>, used |-> {}, opened |-> version,
                      saves |-> 0, last |-> NoCall]
    /\ index = NoTree
    /\ iter = NoIter
    /\ table = NoTable
    /\ catalog = NoCatalog
    /\ db = NoDatabase

S_Allocate(type) ==
    /\ \E r \in StorageEngine_allocate_page(storage.se, type) :
           /\ r.e.next_page_id_ <= MaxStoragePages + 1
           /\ storage' =
                 [storage EXCEPT
                     !.se = r.e,
                     !.written = With(@, r.page_id, PageOf(r.page_id, type)),
                     !.freed = IF @ = << >> THEN @ ELSE Tail(@),
                     !.used = @ \ {r.page_id},
                     !.saves = 1,
                     !.last = [op |-> "allocate", page_id |-> r.page_id,
                               type |-> type,
                               head |-> IF storage.freed = << >> THEN 0
                                        ELSE Head(storage.freed),
                               grew |-> r.e.next_page_id_ #
                                            storage.se.next_page_id_,
                               reused |-> r.page_id \in storage.used]]
    /\ UNCHANGED << index, iter, table, catalog, db >>

S_Deallocate(page_id) ==
    /\ page_id \in DOMAIN storage.written
    /\ \E e \in StorageEngine_deallocate_page(storage.se, page_id) :
           storage' =
               [storage EXCEPT
                   !.se = e,
                   !.written = Without(@, page_id),
                   !.freed = << page_id >> \o @,
                   !.used = IF storage.written[page_id].data # << >>
                            THEN @ \cup {page_id} ELSE @ \ {page_id},
                   !.saves = 1,
                   !.last = NoCall]
    /\ UNCHANGED << index, iter, table, catalog, db >>

S_Write(page_id, payload) ==
    /\ page_id \in DOMAIN storage.written
    /\ \E page \in { [storage.written[page_id] EXCEPT
                         !.data = << payload >>, !.record_count = 1] } :
           storage' =
               [storage EXCEPT
                   !.se = StorageEngine_write_page(@, page_id, page),
                   !.written = With(@, page_id, page),
                   !.last = NoCall]
    /\ UNCHANGED << index, iter, table, catalog, db >>

S_Read(page_id) ==
    /\ page_id \in DOMAIN storage.written
    /\ \E r \in StorageEngine_read_page(storage.se, page_id) :
           storage' = [storage EXCEPT
                          !.se = r.e,
                          !.last = NoCall]
    /\ UNCHANGED << index, iter, table, catalog, db >>

S_FlushAll ==
    /\ storage.se.dirty_pages_ # {}
    /\ storage' = [storage EXCEPT !.se = StorageEngine_flush_all(@),
                                  !.last = NoCall]
    /\ UNCHANGED << index, iter, table, catalog, db >>

S_FlushPage(page_id) ==
    /\ page_id \in storage.se.dirty_pages_
    /\ storage' = [storage EXCEPT
                      !.se = StorageEngine_flush_page(@, page_id),
                      !.last = NoCall]
    /\ UNCHANGED << index, iter, table, catalog, db >>

\* ~StorageEngine flushes; the next engine opens the file with the same
\* cache size
S_Reopen ==
    /\ \E e \in StorageEngine(StorageEngine_flush_all(storage.se).file,
                              storage.se.cache_size_) :
           storage' = [storage EXCEPT
                          !.se = e,
                          !.opened = e.file[0].data[MetaVersion],
                          !.saves = 0,
                          !.last = NoCall]
    /\ UNCHANGED << index, iter, table, catalog, db >>

StorageNext ==
    \/ \E type \in {"DATA", "INDEX"} : S_Allocate(type)
    \/ \E page_id \in 1 .. MaxStoragePages : S_Deallocate(page_id)
    \/ \E page_id \in 1 .. MaxStoragePages, payload \in 1 .. MaxPayload :
           S_Write(page_id, payload)
    \/ \E page_id \in 1 .. MaxStoragePages : S_Read(page_id)
    \/ S_FlushAll
    \/ \E page_id \in 0 .. MaxStoragePages : S_FlushPage(page_id)
    \/ S_Reopen

StorageSpec == StorageInit /\ [][StorageNext]_vars

\* allocate and deallocate in any order, with a client that deallocates a
\* page it has deallocated before: storage.written are the pages handed out
\* and not deallocated since
S_DeallocateAgain(page_id) ==
    /\ page_id \notin DOMAIN storage.written
    /\ page_id < storage.se.next_page_id_
    /\ \E e \in StorageEngine_deallocate_page(storage.se, page_id) :
           storage' =
               [storage EXCEPT
                   !.se = e,
                   !.freed = << page_id >> \o
                                 SelectSeq(@, LAMBDA p : p # page_id),
                   !.saves = 1,
                   !.last = [NoCall EXCEPT !.op = "deallocate again",
                                           !.page_id = page_id]]
    /\ UNCHANGED << index, iter, table, catalog, db >>

FreeNext ==
    \/ \E type \in {"DATA", "INDEX"} : S_Allocate(type)
    \/ \E page_id \in 1 .. MaxStoragePages : S_Deallocate(page_id)
    \/ \E page_id \in 1 .. MaxStoragePages : S_DeallocateAgain(page_id)
    \/ \E page_id \in 1 .. MaxStoragePages, payload \in 1 .. MaxPayload :
           S_Write(page_id, payload)
    \/ S_Reopen

FreeSpec == StorageInit /\ [][FreeNext]_vars

----------------------------------------------------------------------------
(* Database with any number of named tables: d is open, catalog_ and        *)
(* named_tables_, the handles by type and name (named_table_names_ is the   *)
(* second component of each key).  A user type of n int fields is written   *)
(* WideTypes[n].                                                            *)

\* find_if's fetcher with a predicate that holds: batches of the cursor until
\* BatchSize records are loaded or the cursor has no more
RECURSIVE FetchLoop(_, _, _, _, _)
FetchLoop(T, st, t, it, batch_results) ==
    IF ~(Len(batch_results) < BatchSize /\ has_more(it))
    THEN [it |-> it, batch |-> batch_results]
    ELSE \* the records of the batch, cut where batch_results is full
         The({ FetchLoop(T, st, t, nb.it,
                         batch_results
                             \o [i \in 1 .. (IF Len(nb.batch) < BatchSize - Len(batch_results)
                                              THEN Len(nb.batch)
                                              ELSE BatchSize - Len(batch_results)) |->
                                    load_record_as(T, st, nb.batch[i][2])]) :
                 nb \in { next_batch(t, it, BatchSize) } })

\* the body of the loop of unregister_table over one batch, from position i
RECURSIVE RemoveFieldsOf(_, _, _, _, _)
RemoveFieldsOf(st, fields_table, batch, i, table_name) ==
    IF i > Len(batch) THEN [st |-> st, tb |-> fields_table]
    ELSE IF batch[i].table_name # table_name
         THEN RemoveFieldsOf(st, fields_table, batch, i + 1, table_name)
         ELSE The({ RemoveFieldsOf(r.st, r.tb, batch, i + 1, table_name) :
                      r \in { Table_remove(st, fields_table, NoCatalog,
                                           batch[i].field_id) } })

\* for (const auto& field : all_fields): the ProxyVector loads a batch, the
\* body runs on the batch, and the next batch is fetched from the cursor when
\* the batch was full
RECURSIVE UnregisterLoop(_, _, _, _)
UnregisterLoop(st, fields_table, it, table_name) ==
    The({ (IF f.batch = << >> THEN [st |-> st, tb |-> fields_table]
           ELSE The({ (IF Len(f.batch) < BatchSize THEN r
                       ELSE UnregisterLoop(r.st, r.tb, f.it, table_name)) :
                        r \in { RemoveFieldsOf(st, fields_table, f.batch, 1,
                                               table_name) } })) :
            f \in { FetchLoop("FieldMetadata", st, fields_table.index_, it, << >>) } })

\* returns the storage and the catalog after the call
unregister_table(st, sc, table_name) ==
    The({ The({ [st |-> f.st,
                 sc |-> [sc EXCEPT !.tables_table_ = t.tb, !.fields_table_ = f.tb]] :
                  f \in { UnregisterLoop(t.st, sc.fields_table_,
                                         create_batch_iterator(sc.fields_table_.index_),
                                         table_name) } }) :
            t \in { Table_remove(st, sc.tables_table_, NoCatalog, table_name) } })

\* table<T>(table_name): returns the storage, the database and the error
\* thrown; the handle is kept in named_tables_ before register_table runs
Database_named_table(st, d, T, table_name) ==
    IF << T, table_name >> \in DOMAIN d.named_tables_
    THEN [st |-> st, d |-> d, err |-> "none"]
    ELSE The({ (IF table_name = SYS_TABLES \/ table_name = SYS_FIELDS
                THEN [st |-> o.st,
                      d |-> [d EXCEPT !.named_tables_ =
                                         With(@, << T, table_name >>, o.tb)],
                      err |-> "none"]
                ELSE The({ [st |-> r.st,
                            d |-> [d EXCEPT !.catalog_ = r.sc,
                                            !.named_tables_ =
                                                With(@, << T, table_name >>, o.tb)],
                            err |-> r.err] :
                             r \in { register_table(
                                         o.st, d.catalog_,
                                         TableMetadataOf(table_name, T,
                                                         o.tb.index_.root_page_id_,
                                                         FALSE),
                                         extract_field_metadata(T, table_name)) } })) :
                 o \in { TableLoad(st, 0) } })

\* the outcomes of drop_table: the storage, the database and the error
\* thrown.  The loop over named_table_names_, an unordered_map, stops at the
\* first handle of that name; erasing the handle destroys the Table.
drop_table(st, d, table_name) ==
    IF table_name = SYS_TABLES \/ table_name = SYS_FIELDS
    THEN { [st |-> st, d |-> d, err |-> "SystemTable"] }
    ELSE IF \A h \in DOMAIN d.named_tables_ : h[2] # table_name
         THEN { [st |-> st, d |-> d, err |-> "NotFound"] }
         ELSE { The({ [st |-> TableClose(u.st, d.named_tables_[h]),
                       d |-> [d EXCEPT !.catalog_ = u.sc,
                                       !.named_tables_ = Without(@, h)],
                       err |-> "none"] :
                        u \in { unregister_table(st, d.catalog_, table_name) } }) :
                  h \in { g \in DOMAIN d.named_tables_ : g[2] = table_name } }

MaxFields == 9       \* the widest user type has MaxFields fields
MaxDropPages == 52   \* no call may push next_page_id_ beyond MaxDropPages + 1
MaxWidePages == 66   \* the same for the database with the widest user type
MaxHandles == 2      \* named_tables_ holds at most MaxHandles handles

OtherTable == 5      \* a second user table, "t"
TableNames == { SYS_FIELDS, SYS_INDEXES, SYS_TABLES, UserTable, OtherTable }
UserNames == { UserTable, OtherTable }
SmallTypes == { WideTypes[2], WideTypes[3] }
UserTypes == { WideTypes[2], WideTypes[MaxFields] }

DropInit ==
    \E o \in { Database(NoFile) } :
        /\ storage = o.st
        /\ db = [open |-> TRUE, catalog_ |-> o.d.catalog_, named_tables_ |-> << >>]
        /\ table = NoTable
        /\ catalog = NoCatalog
        /\ index = NoTree
        /\ iter = NoIter

Dr_Table(T, table_name, pages) ==
    /\ \E r \in { Database_named_table(storage, db, T, table_name) } :
           /\ r.st.next_page_id_ <= pages + 1
           /\ Cardinality(DOMAIN r.d.named_tables_) <= MaxHandles
           /\ storage' = r.st
           /\ db' = r.d
    /\ UNCHANGED << index, iter, table, catalog >>

Dr_DropTable(table_name) ==
    /\ \E r \in drop_table(storage, db, table_name) :
           /\ storage' = r.st
           /\ db' = r.d
    /\ UNCHANGED << index, iter, table, catalog >>

\* tables of small types under every name, the names of the system tables
\* included
DropNext ==
    \/ \E T \in SmallTypes, table_name \in TableNames :
           Dr_Table(T, table_name, MaxDropPages)
    \/ \E table_name \in TableNames : Dr_DropTable(table_name)

DropSpec == DropInit /\ [][DropNext]_vars

\* user tables of a small and of the widest type
WideNext ==
    \/ \E T \in UserTypes, table_name \in UserNames :
           Dr_Table(T, table_name, MaxWidePages)
    \/ \E table_name \in UserNames : Dr_DropTable(table_name)

WideSpec == DropInit /\ [][WideNext]_vars

----------------------------------------------------------------------------
(* The database with the table "s" of Student, its unique index on name and *)
(* drop_table("s"): the table is created, filled, indexed, dropped and      *)
(* created again under the same name.                                       *)

\* drop_table("s") on the database whose named_tables_ holds the handle tb
DropUser(st, d, tb) ==
    drop_table(st, [d EXCEPT !.named_tables_ =
                                 With(<< >>, << "Student", UserTable >>, tb)],
               UserTable)

D_DropTable ==
    /\ db.open
    /\ db.named_tables_
    /\ \E r \in DropUser(storage, db, table) :
           /\ storage' = r.st
           /\ db' = [db EXCEPT !.catalog_ = r.d.catalog_, !.named_tables_ = FALSE]
           /\ table' = NoTable
    /\ UNCHANGED << index, iter, catalog >>

ReuseNext ==
    \/ D_Table
    \/ D_Insert
    \/ D_AddIndex
    \/ D_DropTable

ReuseSpec == DbInit /\ [][ReuseNext]_vars

\* the table "s" is created and dropped, and the database is closed and
\* opened again, in any order
CatalogNext ==
    \/ D_Table
    \/ D_DropTable
    \/ D_Close
    \/ D_Open

CatalogSpec == DbInit /\ [][CatalogNext]_vars

----------------------------------------------------------------------------
(* Properties of the B+Tree.  A key is stored when a pair with that key is  *)
(* on the leaf chain, which is what get_all and the batch cursor read.      *)

StoredKeys(t) == { p[1] : p \in { get_all(t)[i] : i \in DOMAIN get_all(t) } }

\* C1: after any sequence of inserts and removes, whenever insert(k, v)
\* returns true, an immediately following find(k) returns v and contains(k)
\* is true.
C1_InsertThenFind ==
    \A k \in Keys, v \in Values :
        \A r \in { insert(storage, index, k, v) } :
            r.ret => (find(r.t, k) = << v >> /\ contains(r.t, k))

\* C2: after any sequence of inserts and removes, insert(k, v) returns false
\* and leaves the tree unchanged (same all(), same size, same find(k))
\* whenever a pair with an equal key is stored; no key is ever stored twice.
C2_InsertDuplicateRejected ==
    /\ \A k \in StoredKeys(index), v \in Values :
           \A r \in { insert(storage, index, k, v) } :
               /\ ~r.ret
               /\ get_all(r.t) = get_all(index)
               /\ r.t.size_ = index.size_
               /\ find(r.t, k) = find(index, k)
    /\ \A all \in { get_all(index) } :
           \A i, j \in 1 .. Len(all) : i # j => all[i][1] # all[j][1]

\* C3: remove(k) returns true exactly when k is stored, and after remove(k)
\* returns, find(k) is None, for every tree reachable by inserts and removes.
C3_RemoveExactlyStored ==
    \A k \in Keys :
        \A r \in { remove(storage, index, k) } :
            /\ r.ret <=> k \in StoredKeys(index)
            /\ find(r.t, k) = << >>

\* C4: for any sequence of insert operations, all() is sorted strictly
\* ascending by key and its length equals the number of inserts that
\* returned true (insert adds one to size_ exactly when it returns true).
C4_AllStrictlyAscending ==
    \A all \in { get_all(index) } :
        /\ \A i \in 1 .. Len(all) - 1 : all[i][1] < all[i + 1][1]
        /\ Len(all) = index.size_

\* C5: range(min, max) returns the values of exactly the stored keys k with
\* min <= k <= max, in ascending key order, also when min or max equals a
\* stored key or a separator key.
C5_RangeExact ==
    \A min_key \in Keys, max_key \in Keys :
        LET InRange(p) == min_key <= p[1] /\ p[1] <= max_key IN
        \A hits \in { SelectSeq(get_all(index), InRange) } :
            range_query(index, min_key, max_key)
                = [i \in 1 .. Len(hits) |-> hits[i][2]]

\* C6: on a tree that is not mutated during iteration, for every batch size
\* the concatenation of all next_batch() results until has_more() is false
\* contains every stored pair exactly once, in strictly ascending key order.
C6_CursorVisitsAllAscending ==
    (iter.active /\ ~has_more(iter.it)) =>
        /\ iter.out = get_all(index)
        /\ \A i \in 1 .. Len(iter.out) - 1 : iter.out[i][1] < iter.out[i + 1][1]

\* the leaves of the chain, from leaf_id on
RECURSIVE LeavesFrom(_, _)
LeavesFrom(c, leaf_id) ==
    IF leaf_id = 0 THEN << >>
    ELSE << load_node(c, leaf_id) >> \o
         LeavesFrom(c, load_node(c, leaf_id).next_page_id)

Leaves(t) ==
    LeavesFrom([nc |-> t.node_cache_],
               find_leftmost_leaf([nc |-> t.node_cache_], t.root_page_id_))

HasEmptyLeaf(t) == \E i \in DOMAIN Leaves(t) : Leaves(t)[i].keys = << >>

\* the pairs of the caller's loop  while (it.has_more()) it.next_batch()
RECURSIVE DrainCursor(_, _, _)
DrainCursor(t, it, N) ==
    IF ~has_more(it) THEN << >>
    ELSE The({ r.batch \o DrainCursor(t, r.it, N) :
                 r \in { next_batch(t, it, N) } })

\* C39: a next_batch() call returns BatchSize pairs or leaves has_more()
\* false; a call made when has_more() is false returns no pair and leaves
\* has_more() false; after reset() the cursor is the cursor of a new
\* create_batch_iterator() and its batches are the pairs of all().
C39_CursorProgress ==
    iter.active =>
        /\ \A r \in { next_batch(index, iter.it, iter.BatchSize) } :
               /\ Len(r.batch) = iter.BatchSize \/ ~has_more(r.it)
               /\ ~has_more(iter.it) => (r.batch = << >> /\ ~has_more(r.it))
        /\ \A it \in { reset(index, iter.it) } :
               /\ it = create_batch_iterator(index)
               /\ DrainCursor(index, it, iter.BatchSize) = get_all(index)

\* a cursor that has returned the pairs of a chain with an emptied leaf in
\* more than one batch, the last of them short, and has no more
C39_Witness ==
    /\ iter.active
    /\ ~has_more(iter.it)
    /\ HasEmptyLeaf(index)
    /\ iter.out = get_all(index)
    /\ Len(iter.out) > iter.BatchSize
    /\ Len(iter.out) % iter.BatchSize # 0

\* C30: in a tree where remove has left a leaf without keys, every stored
\* key is found, and insert(k, v) of any key that is not stored returns true
\* and find(k) then returns v.
C30_EmptyLeafKeepsTreeUsable ==
    HasEmptyLeaf(index) =>
        /\ \A k \in StoredKeys(index) : find(index, k) # << >>
        /\ \A k \in Keys \ StoredKeys(index), v \in Values :
               \A r \in { insert(storage, index, k, v) } :
                   r.ret /\ find(r.t, k) = << v >>

\* the keys of the leaves below node_id
RECURSIVE SubtreeKeys(_, _)
SubtreeKeys(c, node_id) ==
    IF load_node(c, node_id).is_leaf
    THEN { load_node(c, node_id).keys[i] : i \in DOMAIN load_node(c, node_id).keys }
    ELSE UNION { SubtreeKeys(c, load_node(c, node_id).children_ids[i]) :
                   i \in DOMAIN load_node(c, node_id).children_ids }

\* the nodes below node_id, node_id among them
RECURSIVE SubtreeNodes(_, _)
SubtreeNodes(c, node_id) ==
    IF load_node(c, node_id).is_leaf THEN {node_id}
    ELSE {node_id} \cup
         UNION { SubtreeNodes(c, load_node(c, node_id).children_ids[i]) :
                   i \in DOMAIN load_node(c, node_id).children_ids }

TreeNodes(t) == SubtreeNodes([nc |-> t.node_cache_], t.root_page_id_)

\* C31: after any sequence of inserts and removes, for every internal node
\* and every separator keys[i], the keys stored below children[i] are less
\* than keys[i] and the keys stored below children[i+1] are at least keys[i].
C31_SeparatorInvariant ==
    \A p \in TreeNodes(index) :
        \A node \in { load_node([nc |-> index.node_cache_], p) } :
            ~node.is_leaf =>
                \A i \in 1 .. Len(node.keys) :
                    /\ \A k \in SubtreeKeys([nc |-> index.node_cache_],
                                            node.children_ids[i]) :
                           k < node.keys[i]
                    /\ \A k \in SubtreeKeys([nc |-> index.node_cache_],
                                            node.children_ids[i + 1]) :
                           k >= node.keys[i]

\* C32: after any sequence of inserts and removes, every leaf of the chain
\* that has a successor is the prev of its successor, no key of the successor
\* is less than a key of the leaf, and the chain from the leftmost leaf holds
\* every leaf of the tree.
C32_LeafChainInvariant ==
    \A chain \in { Leaves(index) } :
        /\ \A i \in 1 .. Len(chain) - 1 :
               /\ chain[i].next_page_id = chain[i + 1].page_id
               /\ chain[i + 1].prev_page_id = chain[i].page_id
               /\ \A a \in DOMAIN chain[i].keys, b \in DOMAIN chain[i + 1].keys :
                      chain[i + 1].keys[b] >= chain[i].keys[a]
        /\ { chain[i].page_id : i \in DOMAIN chain }
               = { p \in TreeNodes(index) : index.node_cache_[p].is_leaf }

\* a chain of four leaves or more under a tree of three levels, with a leaf
\* that a remove has emptied
C32_Witness ==
    /\ Len(Leaves(index)) >= 4
    /\ HasEmptyLeaf(index)
    /\ \E p \in TreeNodes(index) :
           /\ ~index.node_cache_[p].is_leaf
           /\ p # index.root_page_id_

\* the depths of the leaves below node_id, which is at depth d
RECURSIVE LeafDepths(_, _, _)
LeafDepths(c, node_id, d) ==
    IF load_node(c, node_id).is_leaf THEN {d}
    ELSE UNION { LeafDepths(c, load_node(c, node_id).children_ids[i], d + 1) :
                   i \in DOMAIN load_node(c, node_id).children_ids }

\* at most max_keys keys a node, keys + 1 children an internal node, and all
\* leaves at one depth
WellFormed(t) ==
    /\ \A p \in TreeNodes(t) :
           /\ Len(t.node_cache_[p].keys) <= MAX_KEYS
           /\ ~t.node_cache_[p].is_leaf =>
                  Len(t.node_cache_[p].children_ids) = Len(t.node_cache_[p].keys) + 1
    /\ Cardinality(LeafDepths([nc |-> t.node_cache_], t.root_page_id_, 1)) = 1

\* C33: after every insert every node holds at most max_keys keys, every
\* internal node has one child more than keys, all leaves are at one depth,
\* and every key stored before the insert is still stored.
C33_SplitWellFormed ==
    \A k \in DeepKeys, v \in Values :
        \A r \in { insert(storage, index, k, v) } :
            /\ WellFormed(r.t)
            /\ StoredKeys(index) \subseteq StoredKeys(r.t)

\* an insert that splits an internal node under a new root
C33_Witness ==
    \E k \in DeepKeys :
        /\ LeafDepths([nc |-> index.node_cache_], index.root_page_id_, 1) = {2}
        /\ LeafDepths([nc |-> insert(storage, index, k, 1).t.node_cache_],
                      insert(storage, index, k, 1).t.root_page_id_, 1) = {3}
        /\ StoredKeys(index) # {}

\* C34: insert(k, v) and remove(k), with the splits they trigger, leave
\* find(j) as it was for every key j other than k.
C34_FindFrame ==
    \A k \in DeepKeys :
        /\ \A v \in Values :
               \A r \in { insert(storage, index, k, v) } :
                   \A j \in DeepKeys \ {k} : find(r.t, j) = find(index, j)
        /\ \A r \in { remove(storage, index, k) } :
               \A j \in DeepKeys \ {k} : find(r.t, j) = find(index, j)

\* an insert that splits a leaf and moves a key find returns to the new
\* leaf, and a remove that leaves a leaf without keys
C34_Witness ==
    /\ \E k \in DeepKeys : \E j \in DeepKeys \ {k} :
           /\ find(index, j) # << >>
           /\ Cardinality(TreeNodes(insert(storage, index, k, 1).t))
                  > Cardinality(TreeNodes(index))
           /\ find_leaf_for_key([nc |-> index.node_cache_], index.root_page_id_, j)
                  # find_leaf_for_key([nc |-> insert(storage, index, k, 1).t.node_cache_],
                                      insert(storage, index, k, 1).t.root_page_id_, j)
    /\ \E k \in DeepKeys : \E j \in DeepKeys \ {k} :
           /\ find(index, j) # << >>
           /\ remove(storage, index, k).ret
           /\ HasEmptyLeaf(remove(storage, index, k).t)

\* following next_page_id from leaf_id reaches the end within n leaves
RECURSIVE ChainEnds(_, _, _)
ChainEnds(c, leaf_id, n) ==
    IF leaf_id = 0 THEN TRUE
    ELSE IF n = 0 THEN FALSE
    ELSE ChainEnds(c, load_node(c, leaf_id).next_page_id, n - 1)

\* C40: after any sequence of inserts and removes the leaf chain from the
\* leftmost leaf ends after no more leaves than the tree has nodes, no leaf
\* is on it twice, and the recount of the entries made on open counts the
\* pairs all() returns.
C40_LeafChainEnds ==
    /\ ChainEnds([nc |-> index.node_cache_],
                 find_leftmost_leaf([nc |-> index.node_cache_], index.root_page_id_),
                 Cardinality(DOMAIN index.node_cache_))
    /\ \A chain \in { Leaves(index) } :
           \A i, j \in DOMAIN chain : chain[i].page_id = chain[j].page_id => i = j
    /\ count_entries([nc |-> index.node_cache_], index.root_page_id_)
           = Len(get_all(index))

\* a chain of five leaves, grown by splits of leaves with and without a
\* successor
C40_Witness ==
    /\ Len(Leaves(index)) >= 5
    /\ \E i \in 1 .. Len(Leaves(index)) - 1 :
           Leaves(index)[i].page_id > Leaves(index)[i + 1].page_id


----------------------------------------------------------------------------
(* Properties of the table.  A record is in the table when the primary      *)
(* tree holds a pair for it on its leaf chain, which is what the table's    *)
(* iteration reads; the pair's RecordId names the page of the record.       *)

TableRids(tb) ==
    { p[2] : p \in { get_all(tb.index_)[i] : i \in DOMAIN get_all(tb.index_) } }

RecordsOf(st, tb) == { load_record(st, rid) : rid \in TableRids(tb) }

\* C7: insert(r) fails with DuplicateKey and leaves the table unchanged
\* (size, stored record for that key, catalog count) whenever a record with
\* primary key PK(r) is in the table, after any sequence of inserts and
\* removes.
C7_TableInsertDuplicateKey ==
    \A record \in Records :
        record.id \in StoredKeys(table.index_) =>
            \A r \in { Table_insert(storage, table, catalog, record) } :
                /\ r.err = "DuplicateKey"
                /\ Table_size(r.tb) = Table_size(table)
                /\ Table_find(r.st, r.tb, record.id)
                       = Table_find(storage, table, record.id)
                /\ r.cat.record_count = catalog.record_count

\* C8: after insert(r) succeeds, find(PK(r)) returns a record equal to r and
\* contains(PK(r)) is true; size() equals the number of keys for which find
\* succeeds.
C8_TableInsertThenFind ==
    /\ \A record \in Records :
           \A r \in { Table_insert(storage, table, catalog, record) } :
               r.err = "none" =>
                   /\ Table_find(r.st, r.tb, record.id) = << record >>
                   /\ Table_contains(r.tb, record.id)
    /\ Table_size(table)
           = Cardinality({ k \in Keys : Table_find(storage, table, k) # << >> })

\* C9: with a unique secondary index on field name, inserting a record whose
\* name equals that of a record already in the table returns DuplicateKey.
C9_UniqueFieldDuplicateKey ==
    (\E i \in 1 .. Len(table.secondary_indexes_) :
         /\ table.secondary_indexes_[i].field_name_ = "name"
         /\ table.secondary_indexes_[i].is_unique_) =>
        \A record \in Records :
            (\E rid \in TableRids(table) :
                 load_record(storage, rid).name = record.name) =>
                Table_insert(storage, table, catalog, record).err = "DuplicateKey"

\* C10: after any sequence of table insert, update and remove calls, for
\* every record R in the table and every unique index I on field F,
\* I.find(F(R)) returns R's RecordId, so find_by(F, F(R)) returns R.
C10_UniqueIndexFindsRecord ==
    \A rid \in TableRids(table) :
        \A i \in 1 .. Len(table.secondary_indexes_) :
            \A R \in { load_record(storage, rid) } :
                LET w == table.secondary_indexes_[i] IN
                w.is_unique_ =>
                    /\ find_unique(w, R[w.field_name_]) = << rid >>
                    /\ find_by(storage, table, w.field_name_, R[w.field_name_])
                           = << R >>

\* C11: after any sequence of table insert, update and remove calls, for
\* every value v, find(v) on the multi-value index over field name returns
\* exactly the RecordIds of the records in the table whose name is v.
C11_MultiValueFindExact ==
    \A i \in 1 .. Len(table.secondary_indexes_) :
        LET w == table.secondary_indexes_[i] IN
        ~w.is_unique_ =>
            \A v \in Names :
                \A found \in { find_multi(w, v) } :
                    { found[j] : j \in DOMAIN found }
                        = { rid \in TableRids(table) :
                              load_record(storage, rid)[w.field_name_] = v }

\* C12: after any successful insert, remove or clear on the table, the
\* record_count of its catalog row equals size(), which equals the number of
\* records the table holds.
C12_CatalogCountSync ==
    /\ catalog.record_count = Table_size(table)
    /\ Table_size(table) = Len(get_all(table.index_))

C17_IterationYieldsEveryRecordOnce ==
    \A out \in { Table_iterate(storage, table) } :
        /\ \A i \in 1 .. Len(out) - 1 : out[i].id < out[i + 1].id
        /\ { out[i] : i \in 1 .. Len(out) } = RecordsOf(storage, table)
        /\ \A k \in ScanKeys \cup Keys :
               Table_find(storage, table, k) # << >> =>
                   \E i \in 1 .. Len(out) : << out[i] >> = Table_find(storage, table, k)

\* more records than one batch holds, behind a first leaf without keys
C17_Witness ==
    /\ Len(Table_iterate(storage, table)) > BatchSize
    /\ HasEmptyLeaf(table.index_)
    /\ load_node([nc |-> table.index_.node_cache_],
                 find_leftmost_leaf([nc |-> table.index_.node_cache_],
                                    table.index_.root_page_id_)).keys = << >>

\* C18: for every predicate on the primary key and every batch size N,
\* the records find_if(pred) yields on a Table<T, N> are the records of the
\* table that satisfy pred, each once.
C18_FindIfYieldsEveryMatch ==
    \A K \in SUBSET Keys, N \in 1 .. MaxBatch :
        \A out \in { find_if(storage, table, { r \in Records : r.id \in K }, N).out } :
            /\ { out[i] : i \in 1 .. Len(out) }
                   = { r \in RecordsOf(storage, table) : r.id \in K }
            /\ \A i, j \in 1 .. Len(out) : out[i] = out[j] => i = j

\* C19: remove(k) of a key find does not return gives false and changes
\* nothing; remove(k) of a key find returns gives true, and afterwards find(k)
\* is empty, size() is one less, no secondary index returns the RecordId of
\* the record under its name, and find returns every other record as before.
C19_TableRemove ==
    \A k \in Keys :
        \A r \in { Table_remove(storage, table, catalog, k) } :
            IF find(table.index_, k) = << >>
            THEN /\ ~r.ret
                 /\ r.st = storage
                 /\ r.tb = table
                 /\ r.cat = catalog
            ELSE \A rid \in { find(table.index_, k)[1] } :
                     /\ r.ret
                     /\ Table_find(r.st, r.tb, k) = << >>
                     /\ Table_size(r.tb) = Table_size(table) - 1
                     /\ \A i \in 1 .. Len(r.tb.secondary_indexes_) :
                            \A w \in { r.tb.secondary_indexes_[i] } :
                                \A name \in { load_record(storage, rid).name } :
                                    /\ find_unique(w, name) # << rid >>
                                    /\ \A j \in DOMAIN find_multi(w, name) :
                                           find_multi(w, name)[j] # rid
                     /\ \A other \in Keys \ {k} :
                            Table_find(r.st, r.tb, other)
                                = Table_find(storage, table, other)

\* C20: update(r) of a record whose key is stored and whose serialized size is
\* at most DATA_SIZE, 4032 bytes, succeeds and find(PK(r)) then returns r,
\* whatever record the key held before; update fails with RecordTooLarge only
\* for a record of more than DATA_SIZE bytes.
C20_UpdateFitsOnePage ==
    \A record \in SizedRecords :
        \A r \in { Table_update(storage, table, catalog, record) } :
            /\ (/\ Table_contains(table, record.id)
                /\ SizeOf(Serialize(record)) <= DATA_SIZE)
                   => /\ r.err = "none"
                      /\ Table_find(r.st, r.tb, record.id) = << record >>
            /\ r.err = "RecordTooLarge" => SizeOf(Serialize(record)) > DATA_SIZE

\* C22: after clear() size() is 0, find(k) is empty for every key, iteration
\* yields nothing, every data page the table held is free (or serves as the
\* root of the new primary tree), and an insert that follows behaves as on a
\* new table: it succeeds, the record is found by key, it is the only record
\* of the iteration, and a unique index on name finds it by its name.
C22_ClearLeavesFreshTable ==
    \A c \in { Table_clear(storage, table, catalog) } :
        /\ Table_size(c.tb) = 0
        /\ \A k \in Keys : Table_find(c.st, c.tb, k) = << >>
        /\ Table_iterate(c.st, c.tb) = << >>
        /\ \A rid \in TableRids(table) :
               \/ read_page(c.st, rid.page_id).page_type = "FREE"
               \/ rid.page_id = c.tb.index_.root_page_id_
        /\ \A record \in Records :
               \A r \in { Table_insert(c.st, c.tb, c.cat, record) } :
                   /\ r.err = "none"
                   /\ Table_size(r.tb) = 1
                   /\ Table_find(r.st, r.tb, record.id) = << record >>
                   /\ Table_iterate(r.st, r.tb) = << record >>
                   /\ HasIndexOn(table, "name") =>
                          find_by(r.st, r.tb, "name", record.name) = << record >>

----------------------------------------------------------------------------
(* Properties of the database.  Reopen is what a program sees that flushes, *)
(* destroys the Database object, constructs a new one on the same file and  *)
(* asks for the table "s" again.                                            *)

Reopen(st, d, tb) ==
        The({ The({ The({ Database_table(o.st, o.d, NoTable) : o \in { Database(file) } }) : file \in { Database_close(st1, d, tb) } }) : st1 \in { Database_flush(st) } })

\* C13: after flush, close and reopen of the same file, table<Student>("s")
\* returns the same set of records as the table held before the close,
\* whatever number of records was inserted.
C13_ReopenSameRecords ==
    (db.open /\ db.named_tables_) =>
        \A r \in { Reopen(storage, db, table) } :
            RecordsOf(r.st, r.tb) = RecordsOf(storage, table)

\* a catalog view of the reopened database (st1, tb1) against the view before
\* the close (st0, tb0): get_all lists the same rows, and contains() holds
\* for the primary key of each of them
SameView(T, st1, tb1, st0, tb0) ==
    \A rows \in { RowsOf(T, st0, tb0) } :
        /\ RowsOf(T, st1, tb1) = rows
        /\ \A i \in DOMAIN rows :
               Table_contains(tb1, get_primary_key(rows[i]))

\* C14: after flush, close and reopen, the catalog views tables(), fields()
\* and indexes(), opened from the three root pages recorded in page 0, contain
\* exactly the rows they contained before the close, also after the catalog
\* trees split their roots.
C14_CatalogViewsPersist ==
    db.open =>
        \A o \in { Database(Database_close(Database_flush(storage), db, table)) } :
            /\ SameView("TableMetadata", o.st, o.d.catalog_.tables_table_,
                        storage, db.catalog_.tables_table_)
            /\ SameView("FieldMetadata", o.st, o.d.catalog_.fields_table_,
                        storage, db.catalog_.fields_table_)
            /\ SameView("IndexMetadata", o.st, o.d.catalog_.indexes_table_,
                        storage, db.catalog_.indexes_table_)

\* every node the handle t holds is stored in the file of st as the handle
\* holds it
NodesInFile(st, t) ==
    \A p \in DOMAIN t.node_cache_ :
        /\ p \in DOMAIN st.file
        /\ DeserializeNode(st.file[p].data) = t.node_cache_[p]

\* C15: once Database.flush() returns, every earlier successful mutation of
\* the open table "s" and of its indexes is in the file: the data page of
\* every record, and every B+Tree node of the primary tree and of the
\* secondary index trees.
C15_FlushWritesTables ==
    (db.open /\ db.named_tables_ /\ Table_size(table) > 0) =>
        \A st1 \in { Database_flush(storage) } :
            /\ \A rid \in TableRids(table) :
                   /\ rid.page_id \in DOMAIN st1.file
                   /\ st1.file[rid.page_id] = read_page(storage, rid.page_id)
            /\ NodesInFile(st1, table.index_)
            /\ \A i \in 1 .. Len(table.secondary_indexes_) :
                   NodesInFile(st1, table.secondary_indexes_[i].tree)

\* C16: when add_index(name, Unique) is called after a reopen for the table
\* "s", whose index on name is recorded in the catalog, the root recorded in
\* the catalog is reused without a rebuild (no page is allocated), and find_by
\* on name then returns the matching record for every record that was in the
\* table, whatever their number.
C16_ReAddIndexFindsAll ==
    (db.open /\ db.named_tables_ /\ HasIndexOn(table, "name")) =>
        \A r \in { Reopen(storage, db, table) } :
            \A a \in { Db_add_index(r.st, r.d, r.tb, "name", TRUE) } :
                /\ a.st.next_page_id_ = r.st.next_page_id_
                /\ a.tb.secondary_indexes_[1].tree.root_page_id_
                       = ExistingIndex(get_table_indexes(storage, db.catalog_,
                                                         UserTable),
                                       "name", 1)[1].index_root_page
                /\ \A record \in RecordsOf(storage, table) :
                       find_by(a.st, a.tb, "name", record.name) = << record >>

\* the handles of the table on the field
HandlesOn(tb, field_name) ==
    { i \in 1 .. Len(tb.secondary_indexes_) :
          tb.secondary_indexes_[i].field_name_ = field_name }

\* the root page the catalog records for the index of "s" on the field has
\* been written by a flush
IndexRootWritten(st, d, field_name) ==
    \A row \in { get_table_indexes(st, d.catalog_, UserTable)[i] :
                    i \in 1 .. Len(get_table_indexes(st, d.catalog_, UserTable)) } :
        row.field_name = field_name =>
            read_page(st, row.index_root_page).data # << >>

\* C37: add_index is idempotent on one table handle: when the handle of "s"
\* has an index on name attached, add_index(name, Unique) leaves exactly one
\* attached index handle on name, the one that was attached.
C37_AddIndexIdempotent ==
    (/\ db.open
     /\ db.named_tables_
     /\ HasIndexOn(table, "name")
     /\ IndexRootWritten(storage, db, "name")) =>
        \A a \in { Db_add_index(storage, db, table, "name", TRUE) } :
            /\ Cardinality(HandlesOn(a.tb, "name")) = 1
            /\ a.tb.secondary_indexes_ = table.secondary_indexes_

----------------------------------------------------------------------------
(* Properties of the storage engine.  PageAt reads a page as read_page      *)
(* does, without the caching.                                               *)

PageAt(e, page_id) ==
    IF page_id \in DOMAIN e.page_cache_ THEN e.page_cache_[page_id]
    ELSE e.file[page_id]

\* the pages on the free list, from free_list_head_ along next_page_id
RECURSIVE FreeChain(_, _, _)
FreeChain(e, page_id, n) ==
    IF page_id = 0 \/ n = 0 THEN << >>
    ELSE << page_id >> \o FreeChain(e, PageAt(e, page_id).next_page_id, n - 1)

\* the engine a program gets that destroys this one and opens the file again
Reopened(e) == StorageEngine(StorageEngine_flush_all(e).file, e.cache_size_)

\* C23: the free list holds the deallocated pages that were not handed out
\* since, the page freed last first, and an allocate call made while pages
\* are on it returns the page freed last and leaves next_page_id_ as it was.
C23_FreeListReuse ==
    /\ FreeChain(storage.se, storage.se.free_list_head_, MaxStoragePages + 1)
           = storage.freed
    /\ (storage.last.op = "allocate" /\ storage.last.head # 0) =>
           /\ storage.last.page_id = storage.last.head
           /\ ~storage.last.grew

\* C24: a page that carried a payload, was deallocated and is handed out
\* again by allocate_page(type) reads back as Page(page_id, type), with an
\* empty payload, from the cache and from the file after a flush.
C24_ReallocatedPageIsFresh ==
    (storage.last.op = "allocate" /\ storage.last.reused) =>
        LET fresh == PageOf(storage.last.page_id, storage.last.type)
            Fresh(e) ==
                /\ StorageEngine_read_page(e, storage.last.page_id) # {}
                /\ \A r \in StorageEngine_read_page(e, storage.last.page_id) :
                       r.page = fresh
        IN  /\ Fresh(storage.se)
            /\ Reopened(storage.se) # {}
            /\ \A e \in Reopened(storage.se) : Fresh(e)

C24_Witness ==
    /\ storage.last.op = "allocate"
    /\ storage.last.reused
    /\ storage.last.type = "INDEX"
    /\ storage.se.cache_size_ < Cardinality(DOMAIN storage.written)

\* C25: for every cache size, read_page of a page the client holds returns
\* the page last passed to write_page for it, whatever was read, written,
\* flushed and evicted before.
C25_CacheTransparency ==
    \A page_id \in DOMAIN storage.written :
        /\ StorageEngine_read_page(storage.se, page_id) # {}
        /\ \A r \in StorageEngine_read_page(storage.se, page_id) :
               r.page = storage.written[page_id]

\* three pages held with a cache of one page: a written page was evicted to
\* make room for another written page, which is the only page cached
C25_Witness ==
    /\ storage.se.cache_size_ = 1
    /\ Cardinality(DOMAIN storage.written) = MaxStoragePages
    /\ \E page_id \in DOMAIN storage.written :
           /\ storage.written[page_id].data # << >>
           /\ page_id \notin DOMAIN storage.se.page_cache_
           /\ \E other \in DOMAIN storage.written \ {page_id} :
                  /\ storage.written[other].data # << >>
                  /\ DOMAIN storage.se.page_cache_ = {other}

\* C26: after an allocate call the cache holds at most cache_size_ pages.
C26_CacheBounded ==
    storage.last.op = "allocate" =>
        Cardinality(DOMAIN storage.se.page_cache_) <= storage.se.cache_size_

\* C27: a file of version 2 is opened with sys_indexes_root_ 0, and once
\* the metadata were saved after that, page 0 carries version 3.
C27_VersionUpgrade ==
    storage.opened = 2 =>
        /\ storage.se.sys_indexes_root_ = 0
        /\ storage.saves = 1 =>
               \A r \in StorageEngine_read_page(storage.se, 0) :
                   r.page.data[MetaVersion] = 3

----------------------------------------------------------------------------
(* Properties of drop_table and unregister_table.  The catalog is read the  *)
(* way the program reads it, through get_all of its tables.                 *)

TableRows(st, sc) ==
    { RowsOf("TableMetadata", st, sc.tables_table_)[i] :
        i \in 1 .. Len(RowsOf("TableMetadata", st, sc.tables_table_)) }

FieldRows(st, sc) ==
    { RowsOf("FieldMetadata", st, sc.fields_table_)[i] :
        i \in 1 .. Len(RowsOf("FieldMetadata", st, sc.fields_table_)) }

\* C28: drop_table of "_sys_tables", "_sys_fields" and "_sys_indexes" throws
\* and leaves the rows of the catalog and the handles as they were; drop_table
\* of a user table that has a handle does not throw, and afterwards the
\* catalog has no table row of that name and one handle of that name is gone.
C28_DropTable ==
    /\ \A table_name \in { SYS_TABLES, SYS_FIELDS, SYS_INDEXES } :
           \A r \in drop_table(storage, db, table_name) :
               /\ r.err # "none"
               /\ TableRows(r.st, r.d.catalog_) = TableRows(storage, db.catalog_)
               /\ FieldRows(r.st, r.d.catalog_) = FieldRows(storage, db.catalog_)
               /\ DOMAIN r.d.named_tables_ = DOMAIN db.named_tables_
    /\ \A table_name \in { UserTable, OtherTable } :
           (\E h \in DOMAIN db.named_tables_ : h[2] = table_name) =>
               \A r \in drop_table(storage, db, table_name) :
                   /\ r.err = "none"
                   /\ \A row \in TableRows(r.st, r.d.catalog_) :
                          row.table_name # table_name
                   /\ \E h \in DOMAIN db.named_tables_ :
                          /\ h[2] = table_name
                          /\ DOMAIN r.d.named_tables_ = DOMAIN db.named_tables_ \ {h}

\* C29: unregister_table of a user table leaves the table rows and the field
\* rows of the other tables, and no row of that table.
C29_UnregisterTable ==
    \A table_name \in { UserTable, OtherTable } :
        \A r \in { unregister_table(storage, db.catalog_, table_name) } :
            /\ TableRows(r.st, r.sc) =
                   { row \in TableRows(storage, db.catalog_) :
                       row.table_name # table_name }
            /\ FieldRows(r.st, r.sc) =
                   { row \in FieldRows(storage, db.catalog_) :
                       row.table_name # table_name }

IndexRows(st, sc) ==
    IF sc.indexes_table_.count_ = 0 THEN {}
    ELSE { RowsOf("IndexMetadata", st, sc.indexes_table_)[i] :
             i \in 1 .. Len(RowsOf("IndexMetadata", st, sc.indexes_table_)) }

\* C36: after drop_table("s") succeeds no row of _sys_tables, _sys_fields or
\* _sys_indexes refers to "s", and on a table "s" that has its index on name
\* attached, whether or not a table of that name was dropped before, find_by
\* on name returns every record of the table.
C36_DropTableForgetsName ==
    /\ (db.open /\ db.named_tables_) =>
           \A r \in DropUser(storage, db, table) :
               /\ r.err = "none"
               /\ \A row \in TableRows(r.st, r.d.catalog_) \cup
                             FieldRows(r.st, r.d.catalog_) \cup
                             IndexRows(r.st, r.d.catalog_) :
                      row.table_name # UserTable
    /\ (db.open /\ db.named_tables_ /\ HasIndexOn(table, "name")) =>
           \A record \in RecordsOf(storage, table) :
               find_by(storage, table, "name", record.name) = << record >>

\* the same for the part on the table rows and the field rows alone
DropForgetsTableAndFields ==
    (db.open /\ db.named_tables_) =>
        \A r \in DropUser(storage, db, table) :
            /\ r.err = "none"
            /\ \A row \in TableRows(r.st, r.d.catalog_) \cup
                          FieldRows(r.st, r.d.catalog_) :
                   row.table_name # UserTable

----------------------------------------------------------------------------
(* Properties of allocate_page under repeated deallocation *)

\* C35: in any order of allocate and deallocate calls, a page deallocated
\* twice included, allocate_page returns neither page 0 nor a page that was
\* handed out and not deallocated since.
C35_AllocateReturnsFreePage ==
    \A type \in {"DATA", "INDEX"} :
        \A r \in StorageEngine_allocate_page(storage.se, type) :
            /\ r.page_id # 0
            /\ r.page_id \notin DOMAIN storage.written

\* a page deallocated a second time heads the free list while another
\* page is handed out, and allocate_page takes it from there
C35_Witness ==
    /\ storage.last.op = "deallocate again"
    /\ storage.se.free_list_head_ = storage.last.page_id
    /\ DOMAIN storage.written # {}
    /\ \E r \in StorageEngine_allocate_page(storage.se, "DATA") :
           r.page_id = storage.last.page_id

====
